---- MODULE Spec2Model ----
(***************************************************************************)
(* A state-machine model of the "Village of Theron" engine                  *)
(* (src/generative_zork_like.py): the world model, the command parser,      *)
(* the combat resolver, the quest / relationship engine and persistence.    *)
(*                                                                         *)
(* Handlers are operators from a world (and the handler's inputs: the       *)
(* command argument, the dice) to a record [w, out, ...] holding the world   *)
(* after the call and the response returned; the actions apply them to the  *)
(* variables.  Python lists that the code only reads with `in`, `append`    *)
(* and `remove` (inventory, ground items, explored_areas, achievements) are *)
(* multisets: a function from key to number of occurrences.                 *)
(***************************************************************************)
EXTENDS Integers, Sequences, FiniteSets, TLC

\* The live world of the REPL (player, locations, npcs, flags, monster), the
\* saves directory, where the REPL stands (pc), the response to the last input
\* (out) with the order in which the quest rules and the Dialogue Provider were
\* consulted for it (log), and how often each quest reward has been handed out
\* in the live world (granted).  lines counts the lines read at the command prompt
\* and in conversation, in a session whose length a specification bounds.
VARIABLES player, locations, npcs, flags, monster, saves, pc, out, log, granted, lines

\* The game window: GameWindow.waiting_for_input and GameWindow.input_result,
\* the Tk events that wait for the next root.update() (events), where the game
\* loop stands with respect to get_input (loop), and the record of the lines
\* on_enter accepted and of the values get_input returned.
VARIABLES waiting_for_input, input_result, events, loop, accepted, returned

game == <<player, locations, npcs, flags, monster, saves, pc, out, log, granted, lines>>

gui == <<waiting_for_input, input_result, events, loop, accepted, returned>>

vars == <<player, locations, npcs, flags, monster, saves, pc, out, log, granted, lines,
          waiting_for_input, input_result, events, loop, accepted, returned>>

World == [player |-> player, locations |-> locations, npcs |-> npcs,
          flags |-> flags, monster |-> monster]

Max(a, b) == IF a >= b THEN a ELSE b
Min(a, b) == IF a <= b THEN a ELSE b

-----------------------------------------------------------------------------
(* Static data *)

LocationKeys == {"village_square", "blacksmith_shop", "forest_path", "iron_mine",
                 "healer_tent", "elder_hut", "hidden_cave", "deep_ruins",
                 "sealed_tower", "secret_chamber"}

Exits(l) ==
    CASE l = "village_square"  -> {"blacksmith_shop", "forest_path", "elder_hut",
                                   "sealed_tower", "healer_tent"}
      [] l = "blacksmith_shop" -> {"village_square"}
      [] l = "forest_path"     -> {"village_square", "hidden_cave", "iron_mine"}
      [] l = "iron_mine"       -> {"forest_path"}
      [] l = "healer_tent"     -> {"village_square"}
      [] l = "elder_hut"       -> {"village_square"}
      [] l = "hidden_cave"     -> {"forest_path", "deep_ruins"}
      [] l = "deep_ruins"      -> {"hidden_cave"}
      [] l = "sealed_tower"    -> {"village_square"}
      [] l = "secret_chamber"  -> {"hidden_cave"}

NpcKeys == {"blacksmith", "elder", "healer", "wanderer", "miner"}

NpcsAt(l) ==
    CASE l = "village_square"  -> {"wanderer"}
      [] l = "blacksmith_shop" -> {"blacksmith"}
      [] l = "iron_mine"       -> {"miner"}
      [] l = "healer_tent"     -> {"healer"}
      [] l = "elder_hut"       -> {"elder"}
      [] OTHER                 -> {}

ItemKeys == {"rusty_sword", "broad_sword", "leather_armor", "magical_amulet",
             "iron_ore", "glimmering_gem", "ancient_scroll", "master_key",
             "health_potion", "elder_sword", "ancient_trinket", "guardian_armor",
             "healing_potion", "greater_healing_potion"}

\* ITEMS[k].category
Category(k) ==
    CASE k \in {"rusty_sword", "broad_sword", "elder_sword"} -> "weapon"
      [] k \in {"leather_armor", "guardian_armor"} -> "armor"
      [] k = "magical_amulet" -> "accessory"
      [] k = "iron_ore" -> "material"
      [] k \in {"glimmering_gem", "ancient_scroll", "master_key", "ancient_trinket"} -> "quest"
      [] k \in {"health_potion", "healing_potion", "greater_healing_potion"} -> "consumable"

Equipable(k) == k \in {"rusty_sword", "broad_sword", "leather_armor", "magical_amulet",
                       "elder_sword", "guardian_armor"}

\* ITEMS[k].stats.get(stat, 0) for the numeric stats
Stat(k, stat) ==
    CASE stat = "attack" /\ k = "rusty_sword" -> 3
      [] stat = "attack" /\ k = "broad_sword" -> 8
      [] stat = "attack" /\ k = "elder_sword" -> 12
      [] stat = "defense" /\ k = "leather_armor" -> 3
      [] stat = "defense" /\ k = "guardian_armor" -> 5
      [] stat = "max_hp" /\ k = "magical_amulet" -> 5
      [] stat = "hp_regen" /\ k = "magical_amulet" -> 1
      [] OTHER -> 0

\* SHOP[npc]: item -> price; the empty function for an npc that is no shop owner
SHOP(npc) ==
    CASE npc = "blacksmith" -> [i \in {"rusty_sword", "guardian_armor"} |->
                                   IF i = "rusty_sword" THEN 10 ELSE 15]
      [] npc = "healer" -> [i \in {"healing_potion", "greater_healing_potion"} |->
                               IF i = "healing_potion" THEN 8 ELSE 20]
      [] OTHER -> [i \in {} |-> 0]

ShopOwners == {"blacksmith", "healer"}

QuestKeys == {"prove_worth", "clear_cave", "heal_elder", "retrieve_scroll",
              "forge_key", "final_treasure", "lost_trinket"}

ACHIEVEMENTS == {"first_steps", "explorer", "completionist", "rich_merchant", "warrior",
                 "quest_starter", "hero", "socializer", "treasure_hunter", "secret_keeper"}

\* every key the code ever appends to player.achievements
AchievementKeys == ACHIEVEMENTS \cup {"trinket_returner"}

-----------------------------------------------------------------------------
(* Multisets standing for Python lists *)

EmptyBag(S) == [k \in S |-> 0]
In(b, k) == k \in DOMAIN b /\ b[k] > 0
ListAppend(b, k) == [b EXCEPT ![k] = @ + 1]
\* Fault injection: a remove that leaves the list as it is.
ListKeep(b, k) == b

ListRemove(b, k) == [b EXCEPT ![k] = @ - 1]
Size(b) == Cardinality({k \in DOMAIN b : b[k] > 0})

-----------------------------------------------------------------------------
(* Data model *)

\* Optional[Monster] = None
NoMonster == [key |-> "none", name |-> "none", hp |-> 0, attack_min |-> 0, attack_max |-> 0]

Monster(key, name, hp, amin, amax) ==
    [key |-> key, name |-> name, hp |-> hp, attack_min |-> amin, attack_max |-> amax]

\* Equipment(): the three slots empty
Equipment == [weapon |-> "none", armor |-> "none", accessory |-> "none"]

\* NPC(...): relationship fields and emotional_state; said is whether memory holds
\* a "Player said:" entry, the only thing the engine reads back from memory.
NPC(level, points, emotion) ==
    [relationship_level |-> level, relationship_points |-> points,
     emotional_state |-> emotion, said |-> FALSE]

\* w.flags right after build_world: every flag absent.  boss_key / boss_hp hold
\* the per-location "<loc>_boss_key" / "<loc>_boss_hp" entries.
NoFlags ==
    [in_combat |-> FALSE, game_over |-> FALSE, game_completed |-> FALSE,
     cave_seeded |-> FALSE, ruins_seeded |-> FALSE, mine_seeded |-> FALSE,
     guardian_defeated |-> FALSE, final_boss_defeated |-> FALSE,
     in_final_battle |-> FALSE, in_conversation |-> FALSE, conversation_npc |-> "none",
     boss_key |-> [l \in LocationKeys |-> "none"],
     boss_hp |-> [l \in LocationKeys |-> 0]]

build_world ==
    [player |->
        [location |-> "village_square",
         inventory |-> EmptyBag(ItemKeys),
         quests |-> [q \in QuestKeys |-> "not_started"],
         gold |-> 15, hp |-> 20, max_hp |-> 20,
         previous_location |-> "",
         explored_areas |-> [EmptyBag(LocationKeys) EXCEPT !["village_square"] = 1],
         achievements |-> EmptyBag(AchievementKeys),
         equipment |-> Equipment],
     locations |->
        [l \in LocationKeys |->
            [items |-> CASE l = "iron_mine" -> ListAppend(EmptyBag(ItemKeys), "iron_ore")
                         [] l = "secret_chamber" -> ListAppend(EmptyBag(ItemKeys), "ancient_trinket")
                         [] OTHER -> EmptyBag(ItemKeys),
             visited |-> FALSE]],
     npcs |->
        [n \in NpcKeys |->
            CASE n = "elder" -> NPC("neutral", 0, "sad")
              [] n = "healer" -> NPC("friendly", 30, "calm")
              [] n = "wanderer" -> NPC("neutral", 0, "worried")
              [] OTHER -> NPC("neutral", 0, "calm")],
     flags |-> NoFlags,
     monster |-> NoMonster]

-----------------------------------------------------------------------------
(* Achievements, relationships, stats *)

main_quests == {"prove_worth", "clear_cave", "heal_elder", "retrieve_scroll",
                "forge_key", "final_treasure"}

\* w.player.quests.get(q): None for a key the mapping does not hold
QuestGet(w, q) == IF q \in DOMAIN w.player.quests THEN w.player.quests[q] ELSE "none"

\* Fault injection: the append without the `key not in achievements` test.
AwardAgain(ach, key, cond) == IF cond THEN ListAppend(ach, key) ELSE ach

\* one `if key not in achievements and cond: achievements.append(key)` step
Award(ach, key, cond) == IF ~In(ach, key) /\ cond THEN ListAppend(ach, key) ELSE ach

check_achievements(w) ==
    LET completed_main_quests == {q \in main_quests : QuestGet(w, q) = "completed"}
        talked_to_npcs == {n \in NpcKeys : w.npcs[n].said}
        a0 == w.player.achievements
        a1 == Award(a0, "first_steps", Size(w.player.explored_areas) >= 1)
        a2 == Award(a1, "explorer", Size(w.player.explored_areas) >= 5)
        a3 == Award(a2, "completionist", Size(w.player.explored_areas) >= 10)
        a4 == Award(a3, "rich_merchant", w.player.gold >= 50)
        a5 == Award(a4, "quest_starter", Cardinality(completed_main_quests) >= 1)
        a6 == Award(a5, "hero", Cardinality(completed_main_quests) >= 6)
        a7 == Award(a6, "socializer", Cardinality(talked_to_npcs) >= 3)
        a8 == Award(a7, "treasure_hunter", QuestGet(w, "ancient_treasure") = "completed")
        a9 == Award(a8, "secret_keeper", QuestGet(w, "lost_trinket") = "completed")
    IN [w EXCEPT !.player.achievements = a9]

\* the tier computed from the points
Tier(points) == IF points >= 76 THEN "ally" ELSE IF points >= 26 THEN "friendly" ELSE "neutral"

\* Fault injection: the points change and the level stays as it was.
update_relationship_points_only(npc, points_change) ==
    [npc |-> [npc EXCEPT !.relationship_points = Max(0, @ + points_change)],
     messages |-> <<>>]

\* update_relationship(npc, points_change): the npc afterwards and the messages returned
update_relationship(npc, points_change) ==
    LET old_level == npc.relationship_level
        pts == Max(0, npc.relationship_points + points_change)
        new_level == Tier(pts)
        crossing == \/ (new_level = "friendly" /\ old_level = "neutral")
                    \/ (new_level = "ally" /\ old_level = "friendly")
                    \/ (new_level = "neutral" /\ old_level = "friendly")
    IN [npc |-> [npc EXCEPT !.relationship_points = pts, !.relationship_level = new_level],
        messages |-> IF old_level # new_level /\ crossing
                     THEN <<new_level>> ELSE <<>>]

set_emotional_state(npc, emotion) == [npc EXCEPT !.emotional_state = emotion]

\* Fault injection: the base stats alone, whatever is equipped.
get_player_stats_bare(w, stat) == IF stat = "attack" THEN 2 ELSE 0

\* get_player_stats(w)[stat] for attack and defense
get_player_stats(w, stat) ==
    LET e == w.player.equipment
        base == IF stat = "attack" THEN 2 ELSE 0
        of(slot) == IF slot # "none" /\ slot \in ItemKeys THEN Stat(slot, stat) ELSE 0
    IN base + of(e.weapon) + of(e.armor) + of(e.accessory)

-----------------------------------------------------------------------------
(* Handler results *)

\* a handler's return: the world afterwards, the response, the snapshots it asked
\* auto_save to write, and the order in which it consulted the quest rules and the
\* Dialogue Provider
R(w, o) == [w |-> w, out |-> o, saved |-> <<>>, log |-> <<>>]

-----------------------------------------------------------------------------
(* Engine helpers *)

\* what one save_game / auto_save call asks to write: the slot and the world
\* as it is at the moment of the call
Snapshot(name, w) == [name |-> name, w |-> w]

Loc(w) == w.player.location

\* `if key not in loc.items: loc.items.append(key)` at location l
SeedItem(w, l, key) ==
    IF In(w.locations[l].items, key) THEN w
    ELSE [w EXCEPT !.locations[l].items = ListAppend(@, key)]

\* the boss restored by describe_location from the stashed key and hp
RestoredBoss(w, boss_key, boss_hp) ==
    CASE boss_key = "cave_beast" -> Monster("cave_beast", "Cave Beast", boss_hp, 2, 5)
      [] boss_key = "ancient_guardian" -> Monster("ancient_guardian", "Ancient Guardian", boss_hp, 4, 8)
      [] boss_key = "tower_guardian" -> Monster("tower_guardian", "Tower Guardian", boss_hp, 5, 9)
      [] OTHER -> w.monster

\* Fault injection: any blade will do against the guardian.
has_strong_weapon_always(w) == TRUE

has_strong_weapon(w) ==
    \/ In(w.player.inventory, "broad_sword")
    \/ In(w.player.inventory, "elder_sword")

describe_location(w) ==
    LET l == Loc(w)
        boss_key == w.flags.boss_key[l]
        boss_hp == w.flags.boss_hp[l]
        visit(x) == [x EXCEPT !.locations[l].visited = TRUE]
    IN
    IF boss_key # "none" /\ boss_hp # 0 /\ ~w.flags.in_combat THEN
        R([w EXCEPT !.monster = RestoredBoss(w, boss_key, boss_hp),
                    !.flags.in_combat = TRUE,
                    !.flags.boss_key[l] = "none",
                    !.flags.boss_hp[l] = 0],
          "boss_still_here")
    ELSE IF ~w.locations[l].visited THEN
        IF l = "hidden_cave" /\ ~w.flags.cave_seeded THEN
            R(visit([SeedItem(w, l, "glimmering_gem") EXCEPT
                            !.flags.cave_seeded = TRUE,
                            !.monster = Monster("cave_beast", "Cave Beast", 25, 2, 5),
                            !.flags.in_combat = TRUE]),
               "cave_beast_lunges")
        ELSE IF l = "deep_ruins" /\ ~w.flags.ruins_seeded THEN
            LET w1 == [w EXCEPT !.flags.ruins_seeded = TRUE] IN
            IF ~has_strong_weapon(w1) THEN
                R(visit(w1), "guardian_blocks_path")
            ELSE IF ~w1.flags.guardian_defeated THEN
                R(visit([w1 EXCEPT
                                !.monster = Monster("ancient_guardian", "Ancient Guardian", 35, 4, 8),
                                !.flags.in_combat = TRUE]),
                   "guardian_awakens")
            ELSE
                R(visit(SeedItem(w1, l, "ancient_scroll")), "description")
        ELSE IF l = "iron_mine" /\ ~w.flags.mine_seeded /\ ~w.flags.in_combat THEN
            R(visit([w EXCEPT !.flags.mine_seeded = TRUE,
                                   !.monster = Monster("mine_rat", "Mine Rat", 8, 1, 2),
                                   !.flags.in_combat = TRUE]),
               "mine_rat_scurries")
        ELSE IF l = "deep_ruins" /\ w.flags.guardian_defeated THEN
            R(visit(SeedItem(w, l, "ancient_scroll")), "description")
        ELSE
            R(visit(w), "description")
    ELSE
        R(w, "description")

\* Fault injection: the encounter in the seeded cave is a Cave Beast again.
EncounterBeast(w, dest_key, encounter_chance) ==
    IF dest_key = "forest_path" /\ encounter_chance <= 20
        THEN Monster("forest_wolf", "Forest Wolf", 12, 2, 4)
    ELSE IF dest_key = "hidden_cave" /\ w.flags.cave_seeded /\ encounter_chance <= 15
        THEN Monster("cave_beast", "Cave Beast", 25, 2, 5)
    ELSE NoMonster

\* the monster of a random encounter on arriving at dest_key with the roll
\* encounter_chance of random.randint(1, 100); NoMonster when there is none
Encounter(w, dest_key, encounter_chance) ==
    IF dest_key = "forest_path" /\ encounter_chance <= 20
        THEN Monster("forest_wolf", "Forest Wolf", 12, 2, 4)
    ELSE IF dest_key = "hidden_cave" /\ w.flags.cave_seeded /\ encounter_chance <= 15
        THEN Monster("cave_spider", "Cave Spider", 10, 1, 3)
    ELSE IF dest_key = "iron_mine" /\ w.flags.mine_seeded /\ encounter_chance <= 15
        THEN Monster("mine_bat", "Mine Bat", 8, 1, 2)
    ELSE IF dest_key = "deep_ruins" /\ w.flags.guardian_defeated /\ encounter_chance <= 10
        THEN Monster("stone_imp", "Stone Imp", 15, 2, 5)
    ELSE NoMonster

\* the arrival part of move_player and of the hidden-door move: achievements,
\* then the description of the new location
Arrive(w) == describe_location(check_achievements(w))

\* Fault injection: a move that leaves explored_areas as it is.
RelocateUntracked(w, dest_key) ==
    [w EXCEPT !.player.previous_location = w.player.location,
              !.player.location = dest_key]

\* `if key not in explored_areas: explored_areas.append(key)` after the move to dest_key
Relocate(w, dest_key) ==
    [w EXCEPT !.player.previous_location = w.player.location,
              !.player.location = dest_key,
              !.player.explored_areas =
                  IF In(@, dest_key) THEN @ ELSE ListAppend(@, dest_key)]

\* Fault injection: move_player without the test of dest_key against the exits.
move_player_any_exit(w, dest_key, encounter_chance) ==
    IF w.flags.in_combat THEN R(w, "cant_move_in_combat")
    ELSE IF dest_key \notin LocationKeys THEN R(w, "cant_go_that_way")
    ELSE Arrive(Relocate(w, dest_key))

\* Fault injection: move_player without the lock and the guardian of the tower.
move_player_unlocked(w, dest_key, encounter_chance) ==
    IF w.flags.in_combat THEN R(w, "cant_move_in_combat")
    ELSE IF dest_key \notin Exits(Loc(w)) THEN R(w, "cant_go_that_way")
    ELSE Arrive(Relocate(w, dest_key))

move_player(w, dest_key, encounter_chance) ==
    IF w.flags.in_combat THEN R(w, "cant_move_in_combat")
    ELSE IF dest_key \notin Exits(Loc(w)) THEN R(w, "cant_go_that_way")
    ELSE IF dest_key = "sealed_tower" /\ ~In(w.player.inventory, "master_key") THEN
        R(w, "tower_sealed")
    ELSE IF /\ dest_key = "sealed_tower"
            /\ QuestGet(w, "final_treasure") = "started"
            /\ ~w.flags.final_boss_defeated THEN
        R([w EXCEPT !.monster = Monster("tower_guardian", "Tower Guardian", 45, 5, 9),
                         !.flags.in_combat = TRUE,
                         !.flags.in_final_battle = TRUE],
           "final_battle_begins")
    ELSE IF /\ dest_key = "sealed_tower"
            /\ QuestGet(w, "final_treasure") = "started" THEN
        LET w1 == [w EXCEPT !.player.quests["final_treasure"] = "completed"]
        IN [R([w1 EXCEPT !.flags.game_completed = TRUE], "treasure_claimed") EXCEPT
               !.saved = <<Snapshot("autosave_quest_final_treasure", w1)>>]
    ELSE
        LET w1 == Relocate(w, dest_key)
            mon == Encounter(w1, dest_key, encounter_chance)
        IN IF mon # NoMonster
           THEN R([w1 EXCEPT !.monster = mon, !.flags.in_combat = TRUE],
                  "random_encounter")
           ELSE Arrive(w1)

-----------------------------------------------------------------------------
(* Inventory *)

take_item(w, item) ==
    LET l == Loc(w)
        w1 == [w EXCEPT !.locations[l].items = ListRemove(@, item),
                        !.player.inventory = ListAppend(@, item)]
    IN
    IF w.flags.in_combat THEN R(w, "no_time_to_snatch")
    ELSE IF ~In(w.locations[l].items, item) THEN R(w, "dont_see_item")
    ELSE IF item = "glimmering_gem" /\ QuestGet(w1, "clear_cave") # "completed" THEN
        LET w2 == [w1 EXCEPT !.player.quests["clear_cave"] = "completed"]
        IN [R(w2, "take_gem") EXCEPT !.saved = <<Snapshot("autosave_quest_clear_cave", w2)>>]
    ELSE IF item = "iron_ore" /\ QuestGet(w1, "prove_worth") # "completed" THEN
        LET w2 == [w1 EXCEPT !.player.quests["prove_worth"] = "completed"]
        IN [R(w2, "take_ore") EXCEPT !.saved = <<Snapshot("autosave_item_iron_ore", w2)>>]
    ELSE IF item = "ancient_scroll" /\ QuestGet(w1, "retrieve_scroll") # "completed" THEN
        LET w2 == [w1 EXCEPT !.player.quests["retrieve_scroll"] = "completed",
                             !.player.gold = @ + 8]
        IN [R(w2, "take_scroll_reward") EXCEPT
               !.saved = <<Snapshot("autosave_quest_retrieve_scroll", w2)>>]
    ELSE R(w1, "take")

drop_item(w, item) ==
    IF w.flags.in_combat THEN R(w, "not_wise_to_drop")
    ELSE IF ~In(w.player.inventory, item) THEN R(w, "not_carrying")
    ELSE R([w EXCEPT !.player.inventory = ListRemove(@, item),
                     !.locations[Loc(w)].items = ListAppend(@, item)], "drop")

equip_item(w, item_key) ==
    IF ~In(w.player.inventory, item_key) THEN R(w, "dont_have_to_equip")
    ELSE IF item_key \notin ItemKeys THEN R(w, "cannot_be_equipped")
    ELSE IF ~Equipable(item_key) THEN R(w, "cannot_be_equipped")
    ELSE IF Category(item_key) = "weapon" THEN
        R([w EXCEPT !.player.equipment.weapon = item_key], "equip")
    ELSE IF Category(item_key) = "armor" THEN
        R([w EXCEPT !.player.equipment.armor = item_key], "equip")
    ELSE IF Category(item_key) = "accessory" THEN
        R([w EXCEPT !.player.equipment.accessory = item_key], "equip")
    ELSE R(w, "cannot_be_equipped")

\* slot is the argument already lower-cased by unequip_item
unequip_item(w, slot) ==
    IF slot = "weapon" /\ w.player.equipment.weapon # "none" THEN
        R([w EXCEPT !.player.equipment.weapon = "none"], "unequip")
    ELSE IF slot = "armor" /\ w.player.equipment.armor # "none" THEN
        R([w EXCEPT !.player.equipment.armor = "none"], "unequip")
    ELSE IF slot = "accessory" /\ w.player.equipment.accessory # "none" THEN
        R([w EXCEPT !.player.equipment.accessory = "none"], "unequip")
    ELSE R(w, "no_item_equipped")

\* ITEMS[k].stats["heal"]: a number, or 0 standing for "full"
Heal(k) == CASE k = "health_potion" -> 15 [] k = "healing_potion" -> 10 [] OTHER -> 0

\* the healing named in use_item's message where the item heals: actual_heal
\* for a numeric heal, the word full for a full heal
use_item_report(w, item_key) ==
    IF item_key = "greater_healing_potion" THEN <<"full">>
    ELSE <<"amount", Min(w.player.max_hp, w.player.hp + Heal(item_key)) - w.player.hp>>

use_item(w, item_key) ==
    IF ~In(w.player.inventory, item_key) THEN R(w, "dont_have_to_use")
    ELSE IF item_key \notin ItemKeys THEN R(w, "cannot_use")
    ELSE IF Category(item_key) # "consumable" THEN R(w, "not_usable")
    ELSE IF w.player.hp >= w.player.max_hp THEN R(w, "already_full_health")
    ELSE IF item_key = "greater_healing_potion" THEN
        R([w EXCEPT !.player.inventory = ListRemove(@, item_key),
                    !.player.hp = w.player.max_hp], "recover_full")
    ELSE
        R([w EXCEPT !.player.inventory = ListRemove(@, item_key),
                    !.player.hp = Min(w.player.max_hp, w.player.hp + Heal(item_key))],
          "recover")

-----------------------------------------------------------------------------
(* Shop and healer *)

\* Fault injection: a sale on credit, without the test of the player's gold.
buy_item_on_credit(w, npc_key, item) ==
    LET stock == SHOP(npc_key) IN
    IF w.flags.in_combat THEN R(w, "finish_the_fight_first")
    ELSE IF npc_key \notin NpcsAt(Loc(w)) THEN R(w, "no_one_named")
    ELSE IF item \notin DOMAIN stock THEN R(w, "not_for_sale")
    ELSE R([w EXCEPT !.player.gold = @ - stock[item],
                     !.player.inventory = ListAppend(@, item)], "buy")

buy_item(w, npc_key, item) ==
    LET stock == SHOP(npc_key) IN
    IF w.flags.in_combat THEN R(w, "finish_the_fight_first")
    ELSE IF npc_key \notin NpcsAt(Loc(w)) THEN R(w, "no_one_named")
    ELSE IF item \notin DOMAIN stock THEN R(w, "not_for_sale")
    ELSE IF w.player.gold < stock[item] THEN R(w, "not_enough_gold")
    ELSE R([w EXCEPT !.player.gold = @ - stock[item],
                     !.player.inventory = ListAppend(@, item)], "buy")

\* Fault injection: the healing service without the test of the player's gold.
get_healing_on_credit(w, confirm) ==
    IF w.flags.in_combat THEN R(w, "no_healing_in_combat")
    ELSE IF Loc(w) # "healer_tent" THEN R(w, "need_healer_tent")
    ELSE IF w.player.hp >= w.player.max_hp THEN R(w, "already_full_health")
    ELSE IF confirm THEN
        R([w EXCEPT !.player.gold = @ - 5, !.player.hp = w.player.max_hp], "healed_paid")
    ELSE R(w, "healing_cancelled")

\* confirm: the answer typed at the "Confirm? (y/n)" prompt is y or yes
get_healing(w, confirm) ==
    IF w.flags.in_combat THEN R(w, "no_healing_in_combat")
    ELSE IF Loc(w) # "healer_tent" THEN R(w, "need_healer_tent")
    ELSE IF "healer" \notin NpcsAt(Loc(w)) THEN R(w, "healer_not_here")
    ELSE IF w.player.hp >= w.player.max_hp THEN R(w, "already_full_health")
    ELSE IF \/ In(w.player.inventory, "magical_amulet")
            \/ QuestGet(w, "heal_elder") = "completed" THEN
        R([w EXCEPT !.player.hp = w.player.max_hp,
                    !.npcs["healer"] = update_relationship(@, 3).npc], "healed_free")
    ELSE IF w.player.gold < 5 THEN R(w, "need_5_gold")
    ELSE IF confirm THEN
        R([w EXCEPT !.player.gold = @ - 5, !.player.hp = w.player.max_hp], "healed_paid")
    ELSE R(w, "healing_cancelled")

-----------------------------------------------------------------------------
(* Combat *)

\* Fault injection: a blow that can miss.
player_attack_damage_or_miss(w) == 0..get_player_stats(w, "attack")

\* the values random.randint(base - variance, base + variance) can return
player_attack_damage(w) ==
    LET base_damage == get_player_stats(w, "attack")
        variance == Max(1, base_damage \div 4)
    IN (base_damage - variance)..(base_damage + variance)

\* the values random.randint(mon.attack_min, mon.attack_max) can return
monster_attack_damage(mon) == mon.attack_min..mon.attack_max

\* Fault injection: every monster drops the same purse.
GoldRewardFlat(key) == 5

\* gold_reward of do_attack
GoldReward(key) ==
    CASE key = "cave_beast" -> 12
      [] key = "ancient_guardian" -> 15
      [] key = "tower_guardian" -> 25
      [] key = "mine_rat" -> 3
      [] key = "forest_wolf" -> 4
      [] key = "cave_spider" -> 3
      [] key = "mine_bat" -> 2
      [] key = "stone_imp" -> 5
      [] OTHER -> 0

\* Fault injection: a hit that never ends the game.
HitAndFightOn(w, mdmg, o, o_dead) == R([w EXCEPT !.player.hp = @ - mdmg], o)

\* the player hit by the monster for mdmg: hp drops, and at hp <= 0 combat ends
\* and game_over is set
Hit(w, mdmg, o, o_dead) ==
    LET w1 == [w EXCEPT !.player.hp = @ - mdmg] IN
    IF w1.player.hp <= 0
    THEN R([w1 EXCEPT !.flags.in_combat = FALSE, !.flags.game_over = TRUE], o_dead)
    ELSE R(w1, o)

\* dmg is the roll of player_attack_damage, raw_damage that of monster_attack_damage
do_attack(w, dmg, raw_damage) ==
    IF ~w.flags.in_combat THEN R(w, "nothing_to_attack")
    ELSE
    LET mon == [w.monster EXCEPT !.hp = @ - dmg] IN
    IF mon.hp <= 0 THEN
        LET w1 == [w EXCEPT !.flags.in_combat = FALSE,
                            !.monster = NoMonster,
                            !.player.gold = @ + GoldReward(mon.key)]
            w2 == IF mon.key = "ancient_guardian" THEN
                      SeedItem([w1 EXCEPT !.flags.guardian_defeated = TRUE],
                               Loc(w1), "ancient_scroll")
                  ELSE IF mon.key = "tower_guardian" THEN
                      [w1 EXCEPT !.flags.final_boss_defeated = TRUE,
                                 !.flags.game_completed = TRUE,
                                 !.player.quests["final_treasure"] = "completed"]
                  ELSE w1
            w3 == [w2 EXCEPT !.player.achievements =
                       IF In(@, "warrior") THEN @ ELSE ListAppend(@, "warrior")]
        IN [R(w3, "victory") EXCEPT
               !.saved = IF mon.key = "tower_guardian"
                         THEN <<Snapshot("autosave_quest_final_treasure", w2)>>
                         ELSE <<>>]
    ELSE
        Hit([w EXCEPT !.monster = mon],
            Max(1, raw_damage - get_player_stats(w, "defense")),
            "monster_hits_you", "you_fall")

do_defend(w, raw_damage) ==
    IF ~w.flags.in_combat THEN R(w, "not_in_combat")
    ELSE Hit(w, Max(0, raw_damage - (get_player_stats(w, "defense") + 2)),
             "brace", "you_collapse")

BossKeys == {"cave_beast", "ancient_guardian", "tower_guardian"}

\* escaped is random.random() < 0.6
do_flee(w, escaped, raw_damage) ==
    IF ~w.flags.in_combat THEN R(w, "not_in_combat")
    ELSE IF escaped THEN
        LET current_location == Loc(w)
            w1 == [w EXCEPT !.flags.in_combat = FALSE]
            w2 == IF w1.monster # NoMonster /\ w1.monster.key \in BossKeys
                  THEN [w1 EXCEPT !.flags.boss_hp[current_location] = w1.monster.hp,
                                  !.flags.boss_key[current_location] = w1.monster.key]
                  ELSE w1
            w3 == [w2 EXCEPT !.monster = NoMonster, !.player.location = "forest_path"]
        IN [describe_location(w3) EXCEPT !.out = "escape"]
    ELSE
        Hit(w, Max(1, raw_damage - get_player_stats(w, "defense")),
            "stumble", "you_collapse")

-----------------------------------------------------------------------------
(* Dialogue Provider *)

\* what the environment of one npc_reply_claude call can be: no API key, a key
\* but no anthropic module, the client constructor raising, messages.create
\* raising, an empty response, a response with text
ProviderOutcomes == {"no_key", "no_library", "client_fails", "call_raises", "empty", "text"}

\* npc_reply_claude: the reply, or "EXCEPTION" where the call raises to its caller
npc_reply_claude(w, prov) ==
    IF w.flags.in_combat THEN "focus_on_the_fight"
    ELSE IF prov = "no_key" THEN "shrugs"
    ELSE IF prov = "no_library" THEN "EXCEPTION"
    ELSE IF prov = "client_fails" THEN "EXCEPTION"
    ELSE IF prov = "call_raises" THEN "cant_talk_right_now"
    ELSE IF prov = "empty" THEN "fair_enough"
    ELSE "reply"

-----------------------------------------------------------------------------
(* Conversation *)

\* The utterances of the model and, for each, the trigger keywords k for which
\* `k in text.lower()` holds (substring test, computed from the strings).
Texts == {"hello there", "i need work", "forge me a sword", "what about the cave gem",
          "please help heal him", "i found your trinket", "read the scroll runes",
          "any secret passage"}

Keywords(text) ==
    CASE text = "i need work" -> {"work"}
      [] text = "forge me a sword" -> {"forge", "sword"}
      [] text = "what about the cave gem" -> {"gem", "cave"}
      [] text = "please help heal him" -> {"help", "heal"}
      [] text = "i found your trinket" -> {"trinket", "found"}
      [] text = "read the scroll runes" -> {"scroll", "runes"}
      [] text = "any secret passage" -> {"secret", "passage"}
      [] OTHER -> {}

\* any(k in text.lower() for k in ks)
AnyIn(text, ks) == Keywords(text) \cap ks # {}

\* a handler that raised: the world as the exception left it
Raised(w, consulted) == [w |-> w, out |-> "EXCEPTION", saved |-> <<>>, log |-> consulted]

\* `return npc_reply_claude(npc, text, w) + <suffix o>` in a quest rule that fired
Reply(w, prov, o) ==
    IF npc_reply_claude(w, prov) = "EXCEPTION"
    THEN Raised(w, <<"rules", "fired", "provider">>)
    ELSE [R(w, o) EXCEPT !.log = <<"rules", "fired", "provider">>]

\* a quest rule that fired without consulting the provider, writing autosave_<event>
Fired(w, o, event) ==
    [R(w, o) EXCEPT !.log = <<"rules", "fired">>,
                    !.saved = <<Snapshot(event, w)>>]

\* elder_sword for ancient_trinket
TrinketExchange(w) ==
    [w EXCEPT !.player.inventory = ListAppend(ListRemove(@, "ancient_trinket"), "elder_sword"),
              !.npcs["wanderer"] = set_emotional_state(update_relationship(@, 25).npc, "happy"),
              !.player.achievements =
                  IF In(@, "trinket_returner") THEN @ ELSE ListAppend(@, "trinket_returner")]

\* out = "none" stands for `return None`
handle_quest_interactions(w, npc_key, text, prov) ==
    LET inv == w.player.inventory IN
    IF npc_key = "blacksmith" THEN
        IF In(inv, "iron_ore") /\ AnyIn(text, {"ore", "iron", "forge", "sword", "weapon", "craft", "make"}) THEN
            Fired([w EXCEPT !.player.inventory = ListAppend(ListRemove(@, "iron_ore"), "broad_sword"),
                            !.player.quests["prove_worth"] = "completed",
                            !.player.gold = @ + 8,
                            !.npcs[npc_key] = set_emotional_state(update_relationship(@, 15).npc, "excited")],
                  "sword_forged", "autosave_quest_prove_worth")
        ELSE IF QuestGet(w, "prove_worth") = "not_started" /\ AnyIn(text, {"work", "help", "sword", "weapon"}) THEN
            Reply([w EXCEPT !.player.quests["prove_worth"] = "started"], prov, "quest_started")
        ELSE IF /\ In(inv, "rusty_sword") /\ QuestGet(w, "clear_cave") = "not_started"
                /\ AnyIn(text, {"gem", "cave", "danger"}) THEN
            Reply([w EXCEPT !.player.quests["clear_cave"] = "started"], prov, "quest_started")
        ELSE IF /\ In(inv, "ancient_scroll") /\ QuestGet(w, "forge_key") = "not_started"
                /\ AnyIn(text, {"scroll", "runes", "forge", "key"}) THEN
            Fired([w EXCEPT !.player.inventory = ListAppend(ListRemove(@, "ancient_scroll"), "master_key"),
                            !.player.quests["forge_key"] = "completed",
                            !.player.quests["final_treasure"] = "started"],
                  "key_forged", "autosave_quest_forge_key")
        ELSE [R(w, "none") EXCEPT !.log = <<"rules">>]
    ELSE IF npc_key = "healer" THEN
        IF AnyIn(text, {"heal", "help", "hurt", "wounded", "hp", "health", "potion"}) THEN
            IF w.player.hp >= w.player.max_hp THEN Reply(w, prov, "perfectly_healthy")
            ELSE IF In(inv, "magical_amulet") \/ QuestGet(w, "heal_elder") = "completed" THEN
                Reply([w EXCEPT !.player.hp = w.player.max_hp,
                                !.npcs[npc_key] = update_relationship(@, 3).npc],
                      prov, "healed_free")
            ELSE IF w.player.gold >= 5 THEN
                Reply([w EXCEPT !.player.gold = @ - 5, !.player.hp = w.player.max_hp],
                      prov, "healed_paid")
            ELSE Reply(w, prov, "need_5_gold")
        ELSE [R(w, "none") EXCEPT !.log = <<"rules">>]
    ELSE IF npc_key = "elder" THEN
        IF In(inv, "glimmering_gem") /\ QuestGet(w, "heal_elder") = "not_started" THEN
            Reply([w EXCEPT !.player.quests["heal_elder"] = "started"], prov, "quest_started")
        ELSE IF /\ QuestGet(w, "heal_elder") = "started" /\ In(inv, "glimmering_gem")
                /\ AnyIn(text, {"heal", "gem", "curse", "help"}) THEN
            Fired([w EXCEPT !.player.inventory = ListAppend(ListRemove(@, "glimmering_gem"), "magical_amulet"),
                            !.player.max_hp = @ + 5,
                            !.player.hp = @ + 5,
                            !.player.quests["heal_elder"] = "completed",
                            !.player.quests["retrieve_scroll"] = "started",
                            !.player.gold = @ + 10,
                            !.npcs[npc_key] = set_emotional_state(update_relationship(@, 20).npc, "happy")],
                  "elder_healed", "autosave_quest_heal_elder")
        ELSE [R(w, "none") EXCEPT !.log = <<"rules">>]
    ELSE IF npc_key = "wanderer" THEN
        IF In(inv, "ancient_trinket") /\ AnyIn(text, {"trinket", "medallion", "found", "artifact"}) THEN
            Fired(TrinketExchange(w), "trinket_returned", "autosave_quest_lost_trinket")
        ELSE IF AnyIn(text, {"search", "looking", "lost", "find", "trinket", "artifact"}) THEN
            Reply(w, prov, "wanderer_plight")
        ELSE [R(w, "none") EXCEPT !.log = <<"rules">>]
    ELSE IF npc_key = "miner" THEN
        IF AnyIn(text, {"cave", "hidden", "secret", "chamber", "passage", "room"}) THEN
            Reply([w EXCEPT !.npcs[npc_key] = update_relationship(@, 5).npc], prov, "miner_hint")
        ELSE [R(w, "none") EXCEPT !.log = <<"rules">>]
    ELSE [R(w, "none") EXCEPT !.log = <<"rules">>]

\* one dialogue turn of conversation mode
talk_to_conversation(w, npc_key, text, prov) ==
    LET w1 == [w EXCEPT !.npcs[npc_key] = [update_relationship(@, 1).npc EXCEPT !.said = TRUE]]
    IN
    IF /\ npc_key = "wanderer" /\ In(w1.player.inventory, "ancient_trinket")
       /\ AnyIn(text, {"trinket", "medallion", "found", "artifact"}) THEN
        Fired([TrinketExchange(w1) EXCEPT !.player.quests["lost_trinket"] = "completed"],
              "trinket_returned", "autosave_quest_lost_trinket")
    ELSE
        LET pre == IF npc_key = "wanderer" THEN <<"rules">> ELSE <<>>
            reply == npc_reply_claude(w1, prov)
            quest_result == handle_quest_interactions(w1, npc_key, text, prov)
        IN IF reply = "EXCEPTION" THEN Raised(w1, pre \o <<"provider">>)
           ELSE IF quest_result.out # "none"
                THEN [quest_result EXCEPT !.log = pre \o <<"provider">> \o @]
           ELSE [R(w1, reply) EXCEPT !.log = pre \o <<"provider">> \o quest_result.log]

\* conversation_mode without the test that the NPC is in the player's location
conversation_mode_anyone(w, npc_key) ==
    IF w.flags.in_combat THEN R(w, "no_time_to_chat")
    ELSE R([w EXCEPT !.flags.in_conversation = TRUE,
                     !.flags.conversation_npc = npc_key], "conversation")

\* conversation_mode up to its input loop: the refusals, or the flags set
conversation_mode(w, npc_key) ==
    IF w.flags.in_combat THEN R(w, "no_time_to_chat")
    ELSE IF npc_key \notin NpcsAt(Loc(w)) THEN R(w, "no_one_named")
    ELSE R([w EXCEPT !.flags.in_conversation = TRUE,
                     !.flags.conversation_npc = npc_key], "conversation")

\* an exit phrase (or end of input) in conversation mode
end_conversation(w) ==
    [w EXCEPT !.flags.in_conversation = FALSE, !.flags.conversation_npc = "none"]

-----------------------------------------------------------------------------
(* Persistence *)

\* JSON null
Null == [json |-> "null"]

\* the stamp datetime.now().isoformat() of a document; the engine only prints it
SaveTime == "save_time"

\* asdict(w.player), ..., the flags mapping, the monster or null, and the stamp
world_to_dict(w) ==
    [player |-> w.player,
     locations |-> w.locations,
     npcs |-> w.npcs,
     flags |-> w.flags,
     monster |-> IF w.monster # NoMonster THEN w.monster ELSE Null,
     save_time |-> SaveTime]

EquipmentFields == {"weapon", "armor", "accessory"}

\* Fault injection: the equipment mapping of the document ignored.
EquipmentDefault(equipment_data) == Equipment

\* Equipment(**equipment_kwargs): the slots the mapping names, the rest empty
EquipmentFrom(equipment_data) ==
    IF DOMAIN equipment_data \cap EquipmentFields # {}
    THEN [f \in EquipmentFields |->
             IF f \in DOMAIN equipment_data THEN equipment_data[f] ELSE "none"]
    ELSE Equipment

dict_to_world(data) ==
    LET player_data == data.player
        equipment == IF "equipment" \in DOMAIN player_data
                     THEN EquipmentFrom(player_data.equipment)
                     ELSE Equipment
    IN [player |-> [player_data EXCEPT !.equipment = equipment],
        locations |-> data.locations,
        npcs |-> data.npcs,
        flags |-> IF "flags" \in DOMAIN data THEN data.flags ELSE NoFlags,
        monster |-> IF data.monster # Null THEN data.monster ELSE NoMonster]

\* the names a save can be written under: the ones typed, and autosave_<event>
ManualSaves == {"quicksave", "slot1"}
AutoSaves == {"autosave_quest_lost_trinket", "autosave_quest_prove_worth",
              "autosave_quest_forge_key", "autosave_quest_heal_elder",
              "autosave_quest_clear_cave", "autosave_item_iron_ore",
              "autosave_quest_retrieve_scroll", "autosave_quest_final_treasure"}
SaveNames == ManualSaves \cup AutoSaves

\* saves/<name>.json: absent, holding a JSON document, or holding what a write
\* that failed half-way left behind
Missing == [kind |-> "missing"]
Corrupt == [kind |-> "corrupt"]
Json(doc) == [kind |-> "json", doc |-> doc]
NoFiles == [n \in SaveNames |-> Missing]

\* what a write to the saves directory can do: succeed, raise before the file is
\* opened (nothing changes), raise while json.dump is writing (a truncated file)
IOOutcomes == {"ok", "fail", "partial"}

\* `with open(save_path, "w") as f: json.dump(world_to_dict(w), f)` under io
WriteFile(files, snapshot, io) ==
    IF io = "ok" THEN [files EXCEPT ![snapshot.name] = Json(world_to_dict(snapshot.w))]
    ELSE IF io = "partial" THEN [files EXCEPT ![snapshot.name] = Corrupt]
    ELSE files

\* the files after the writes a handler asked for
WriteAll(files, saved, io) ==
    IF saved = <<>> THEN files ELSE WriteFile(files, saved[1], io)

save_game(w, save_name, io) ==
    [R(w, IF io = "ok" THEN "game_saved" ELSE "failed_to_save") EXCEPT
        !.saved = <<Snapshot(save_name, w)>>]

\* Fault injection: a load that falls back to a new world when the file cannot
\* be read.
load_game_or_new(files, save_name) ==
    LET f == files[save_name] IN
    [ok |-> TRUE,
     world |-> IF f.kind = "json" THEN dict_to_world(f.doc) ELSE build_world,
     message |-> "game_loaded"]

\* load_game: (world, message), world = None rendered as ok = FALSE
load_game(files, save_name) ==
    LET f == files[save_name] IN
    IF f.kind = "missing" THEN [ok |-> FALSE, world |-> Null, message |-> "save_not_found"]
    ELSE IF f.kind = "corrupt" THEN [ok |-> FALSE, world |-> Null, message |-> "failed_to_load"]
    ELSE [ok |-> TRUE, world |-> dict_to_world(f.doc), message |-> "game_loaded"]

\* load_world: the world, or None rendered as ok = FALSE
load_world(files, save_name) ==
    LET f == files[save_name] IN
    IF f.kind = "json" THEN [ok |-> TRUE, world |-> dict_to_world(f.doc)]
    ELSE [ok |-> FALSE, world |-> Null]

\* the *.json files of the saves directory
save_files(files) == {n \in SaveNames : files[n].kind # "missing"}

list_saves(files) ==
    IF save_files(files) = {} THEN "no_save_files" ELSE "available_saves"

-----------------------------------------------------------------------------
(* Parser *)

\* An input line is the sequence of its words, as typed.  Names of several
\* words are typed with underscores, so that a command argument is one word.

\* str.lower() on the words of the model that hold an upper-case letter
Lower(word) ==
    CASE word = "Look" -> "look"
      [] word = "GO" -> "go"
      [] word = "Take" -> "take"
      [] word = "Iron_Ore" -> "iron_ore"
      [] word = "Rusty_Sword" -> "rusty_sword"
      [] word = "QuickSave" -> "quicksave"
      [] OTHER -> word

\* any(keyword in target for keyword in ["hidden_door", "secret_door", "door",
\* "secret_chamber", "chamber"]) for the targets of the model
HiddenDoorTarget(target) ==
    target \in {"hidden_door", "secret_door", "door", "secret_chamber", "chamber"}

\* the dice and the environment of one command: the rolls of random.randint and
\* random.random, the answer at the healer's prompt, the Dialogue Provider, the disk
NoDice == [encounter_chance |-> 100, dmg |-> 0, raw_damage |-> 0, escaped |-> FALSE,
           confirm |-> FALSE, prov |-> "no_key", io |-> "fail"]

\* talk_to is called by parse_and_exec and defined nowhere in the module, so
\* the call raises NameError
talk_to(w) == Raised(w, <<>>)

\* the result of a `load` that found a world: the live world w untouched, the
\* sentinel, and the world loaded
LoadSentinel(w, new_world) ==
    [w |-> w, out |-> "__LOAD__", saved |-> <<>>, log |-> <<>>, new_world |-> new_world]

\* Fault injection: a combat gate that lets `drop` through.
combat_only_but_drop(w, low, d) ==
    IF low = <<"attack">> THEN do_attack(w, d.dmg, d.raw_damage)
    ELSE IF low = <<"defend">> THEN do_defend(w, d.raw_damage)
    ELSE IF low = <<"flee">> THEN do_flee(w, d.escaped, d.raw_damage)
    ELSE IF Len(low) >= 2 /\ low[1] = "drop" THEN
        [drop_item([w EXCEPT !.flags.in_combat = FALSE], low[2]) EXCEPT !.w.flags.in_combat = TRUE]
    ELSE R(w, "in_combat_try")

\* the combat-only commands of parse_and_exec: low is the lower-cased line
combat_only(w, low, d) ==
    IF low = <<"attack">> THEN do_attack(w, d.dmg, d.raw_damage)
    ELSE IF low = <<"defend">> THEN do_defend(w, d.raw_damage)
    ELSE IF low = <<"flee">> THEN do_flee(w, d.escaped, d.raw_damage)
    ELSE IF low \in {<<"look">>, <<"l">>} THEN describe_location(w)
    ELSE IF low \in {<<"inventory">>, <<"inv">>, <<"i">>, <<"stats">>} THEN R(w, "stats")
    ELSE R(w, "in_combat_try")

parse_and_exec(w, s, d, files) ==
    LET n == Len(s)
        low == [i \in 1..n |-> Lower(s[i])]
    IN
    IF n = 0 THEN R(w, "say_or_do_something")
    ELSE IF w.flags.in_combat THEN combat_only(w, low, d)
    ELSE IF low[1] \in {"go", "move", "walk"} /\ n >= 2 THEN
        LET target == low[2] IN
        IF Loc(w) = "hidden_cave" /\ HiddenDoorTarget(target) THEN
            [Arrive(Relocate(w, "secret_chamber")) EXCEPT !.out = "hidden_chamber"]
        ELSE move_player(w, target, d.encounter_chance)
    ELSE IF low \in {<<"look">>, <<"l">>} THEN describe_location(w)
    ELSE IF low \in {<<"inventory">>, <<"inv">>, <<"i">>} THEN R(w, "inventory")
    ELSE IF low = <<"stats">> THEN R(w, "stats")
    ELSE IF low \in {<<"quests">>, <<"quest">>, <<"q">>} THEN R(w, "quests")
    ELSE IF low[1] = "take" /\ n >= 2 THEN take_item(w, s[2])
    ELSE IF low[1] = "drop" /\ n >= 2 THEN drop_item(w, s[2])
    ELSE IF low = <<"shop">> THEN R(w, "shop")
    ELSE IF low[1] = "buy" /\ n >= 2 THEN
        LET owners == NpcsAt(Loc(w)) \cap ShopOwners IN
        IF owners = {} THEN R(w, "no_shop_here")
        ELSE buy_item(w, CHOOSE o \in owners : TRUE, s[2])
    ELSE IF low[1] = "equip" /\ n >= 2 THEN equip_item(w, s[2])
    ELSE IF low[1] = "unequip" /\ n >= 2 THEN unequip_item(w, low[2])
    ELSE IF low[1] = "use" /\ n >= 2 THEN use_item(w, s[2])
    ELSE IF low \in {<<"heal">>, <<"healing">>, <<"get", "healing">>} THEN
        get_healing(w, d.confirm)
    ELSE IF low[1] = "talk" /\ n >= 2 THEN
        IF low[2] = "to" THEN
            IF n < 3 THEN R(w, "talk_to_whom") ELSE conversation_mode(w, low[3])
        ELSE conversation_mode(w, low[2])
    ELSE IF low[1] = "ask" /\ n >= 2 THEN
        IF n >= 4 /\ low[3] = "about" THEN talk_to(w) ELSE R(w, "try_ask")
    ELSE IF low[1] \in {"save", "saves"} THEN
        save_game(w, IF n > 1 THEN s[2] ELSE "quicksave", d.io)
    ELSE IF low[1] = "load" THEN
        LET loaded == load_game(files, IF n > 1 THEN s[2] ELSE "quicksave") IN
        IF loaded.ok THEN LoadSentinel(w, loaded.world) ELSE R(w, loaded.message)
    ELSE IF low \in {<<"music">>, <<"mute">>, <<"unmute">>} THEN R(w, "music")
    ELSE IF low = <<"list">> THEN R(w, list_saves(files))
    ELSE IF low = <<"exit">> THEN
        IF w.player.previous_location = "" THEN R(w, "nowhere_to_exit")
        ELSE move_player(w, w.player.previous_location, d.encounter_chance)
    ELSE IF low \in {<<"map">>, <<"m">>} THEN R(w, "map")
    ELSE IF low \in {<<"achievements">>, <<"ach">>} THEN R(w, "achievements")
    ELSE IF low \in {<<"relationships">>, <<"relationship">>, <<"rel">>} THEN
        R(w, "relationships")
    ELSE IF low = <<"quit">> THEN R(w, "__QUIT__")
    ELSE IF low[1] \in NpcKeys /\ low[1] \in NpcsAt(Loc(w)) THEN talk_to(w)
    ELSE R(w, "dont_understand")

-----------------------------------------------------------------------------
(* REPL *)

\* the quest whose completion reward a response hands out
RewardOf(o) ==
    CASE o = "sword_forged" -> "prove_worth"
      [] o = "elder_healed" -> "heal_elder"
      [] o = "take_scroll_reward" -> "retrieve_scroll"
      [] o = "key_forged" -> "forge_key"
      [] o = "trinket_returned" -> "lost_trinket"
      [] OTHER -> "none"

NoneGranted == [q \in QuestKeys |-> 0]

Granted(g, o) == IF RewardOf(o) = "none" THEN g ELSE [g EXCEPT ![RewardOf(o)] = @ + 1]

\* The counters the code lets grow without limit are capped by the input
\* record b of a specification: a step that would take gold past b.max_gold,
\* or an NPC's relationship points past b.max_points, is not taken, and a
\* dialogue turn is taken only with an NPC whose points are below its b.small_talk.
\* A specification with b.session > 0 reads at most b.session input lines.
ReadLine(b) ==
    /\ IF b.session = 0 THEN UNCHANGED lines
       ELSE lines < b.session /\ lines' = lines + 1
    /\ UNCHANGED gui

WithinBounds(b, w) ==
    /\ w.player.gold <= b.max_gold
    /\ \A k \in ItemKeys : w.player.inventory[k] <= b.max_copies
    /\ \A n \in NpcKeys : w.npcs[n].relationship_points <= b.max_points

SetWorld(w) ==
    /\ player' = w.player
    /\ locations' = w.locations
    /\ npcs' = w.npcs
    /\ flags' = w.flags
    /\ monster' = w.monster

\* the world a new game starts in: build_world(), then the description of the
\* village square printed by repl
NewGame == describe_location(build_world).w

\* the REPL waits at its prompt
AtPrompt ==
    /\ pc = "repl"
    /\ ~flags.game_completed /\ ~flags.game_over /\ ~flags.in_conversation

\* the outcomes of the writes a handler asked for: none to choose when it
\* asked for no write
Writes(b, saved) == IF saved = <<>> THEN {"fail"} ELSE b.io_set

\* the loop's handling of the parser's response r: the sentinels, the
\* snapshots the handler asked to be written, the text printed; an exception
\* that nothing catches ends the session
Respond(b, r, io) ==
    /\ WithinBounds(b, r.w)
    /\ saves' = WriteAll(saves, r.saved, io)
    /\ out' = r.out
    /\ log' = r.log
    /\ IF r.out = "__LOAD__"
       THEN SetWorld(describe_location(r.new_world).w) /\ granted' = NoneGranted
       ELSE SetWorld(r.w) /\ granted' = Granted(granted, r.out)
    /\ pc' = CASE r.out = "__QUIT__" -> "quit"
               [] r.out = "EXCEPTION" -> "crashed"
               [] r.out = "conversation" -> "conversation"
               [] OTHER -> "repl"

\* one pass of the REPL loop for the line s: help, or the parser
Command(b, s, d) ==
    /\ AtPrompt
    /\ ReadLine(b)
    /\ IF Len(s) = 1 /\ Lower(s[1]) \in {"help", "h", "?"} THEN
           /\ out' = "help" /\ log' = <<>>
           /\ UNCHANGED <<player, locations, npcs, flags, monster, saves, pc, granted>>
       ELSE
           \E io \in Writes(b, parse_and_exec(World, s, d, saves).saved) :
               Respond(b, parse_and_exec(World, s, [d EXCEPT !.io = io], saves), io)

\* the dialogue loop's handling of the reply r
Answer(b, r) ==
    /\ WithinBounds(b, r.w)
    /\ SetWorld(r.w)
    /\ \E io \in Writes(b, r.saved) : saves' = WriteAll(saves, r.saved, io)
    /\ out' = r.out
    /\ log' = r.log
    /\ granted' = Granted(granted, r.out)
    /\ pc' = IF r.out = "EXCEPTION" THEN "crashed" ELSE "conversation"

\* a dialogue turn inside conversation_mode
Turn(b, text, prov) ==
    /\ pc = "conversation"
    /\ ReadLine(b)
    /\ npcs[flags.conversation_npc].relationship_points < b.small_talk[flags.conversation_npc]
    /\ Answer(b, talk_to_conversation(World, flags.conversation_npc, text, prov))

-----------------------------------------------------------------------------
(* Actions.  b is the record of the input sets a specification draws from. *)

Lowest(S) == {x \in S : \A y \in S : x <= y}
Highest(S) == {x \in S : \A y \in S : x >= y}

\* the rolls of a die with the faces S that a specification lets happen
Rolls(S, how) ==
    CASE how = "all" -> S
      [] how = "extremes" -> Lowest(S) \cup Highest(S)
      [] how = "high" -> Highest(S)
      [] how = "low" -> Lowest(S)

Go(b) ==
    /\ AtPrompt
    /\ \E verb \in b.go, target \in b.targets, chance \in b.encounter :
        Command(b, <<verb, target>>, [NoDice EXCEPT !.encounter_chance = chance])

Exit(b) ==
    /\ AtPrompt
    /\ \E chance \in b.encounter :
        Command(b, <<"exit">>, [NoDice EXCEPT !.encounter_chance = chance])

Look(b) ==
    /\ AtPrompt
    /\ \E s \in b.look : Command(b, s, NoDice)

Info(b) ==
    /\ AtPrompt
    /\ \E s \in b.info : Command(b, s, NoDice)

Take(b) ==
    /\ AtPrompt
    /\ \E verb \in b.take, item \in b.items : Command(b, <<verb, item>>, NoDice)

Drop(b) ==
    /\ AtPrompt
    /\ \E item \in b.drops : Command(b, <<"drop", item>>, NoDice)

Buy(b) ==
    /\ AtPrompt
    /\ \E item \in b.wares : Command(b, <<"buy", item>>, NoDice)

Equip(b) ==
    /\ AtPrompt
    /\ \E item \in b.gear : Command(b, <<"equip", item>>, NoDice)

Unequip(b) ==
    /\ AtPrompt
    /\ \E slot \in b.slots : Command(b, <<"unequip", slot>>, NoDice)

Use(b) ==
    /\ AtPrompt
    /\ \E item \in b.potions : Command(b, <<"use", item>>, NoDice)

HealerService(b) ==
    /\ AtPrompt
    /\ \E confirm \in b.confirm : Command(b, <<"heal">>, [NoDice EXCEPT !.confirm = confirm])

Talk(b) ==
    /\ AtPrompt
    /\ \E s \in b.talk : Command(b, s, NoDice)

Ask(b) ==
    /\ AtPrompt
    /\ \E s \in b.ask : Command(b, s, NoDice)

NameFirst(b) ==
    /\ AtPrompt
    /\ \E s \in b.name_first : Command(b, s, NoDice)

Attack(b) ==
    /\ AtPrompt /\ flags.in_combat
    /\ \E dmg \in Rolls(player_attack_damage(World), b.player_dice),
          raw_damage \in Rolls(monster_attack_damage(monster), b.monster_dice) :
        Command(b, <<"attack">>, [NoDice EXCEPT !.dmg = dmg, !.raw_damage = raw_damage])

Defend(b) ==
    /\ AtPrompt /\ flags.in_combat
    /\ \E raw_damage \in Rolls(monster_attack_damage(monster), b.monster_dice) :
        Command(b, <<"defend">>, [NoDice EXCEPT !.raw_damage = raw_damage])

Flee(b) ==
    /\ AtPrompt /\ flags.in_combat
    /\ \E escaped \in b.escaped,
          raw_damage \in Rolls(monster_attack_damage(monster), b.monster_dice) :
        Command(b, <<"flee">>, [NoDice EXCEPT !.escaped = escaped, !.raw_damage = raw_damage])

Save(b) ==
    /\ AtPrompt
    /\ \E s \in b.save : Command(b, s, NoDice)

Load(b) ==
    /\ AtPrompt
    /\ \E s \in b.load : Command(b, s, NoDice)

ListSaves(b) ==
    /\ AtPrompt
    /\ Command(b, <<"list">>, NoDice)

Quit(b) ==
    /\ AtPrompt
    /\ Command(b, <<"quit">>, NoDice)

Unknown(b) ==
    /\ AtPrompt
    /\ \E s \in b.unknown : Command(b, s, NoDice)

Say(b) ==
    /\ pc = "conversation"
    /\ \E text \in b.texts, prov \in b.prov : Turn(b, text, prov)

\* an exit phrase, or the end of the input, inside conversation_mode
Bye(b) ==
    /\ pc = "conversation"
    /\ ReadLine(b)
    /\ SetWorld(end_conversation(World))
    /\ pc' = "repl"
    /\ out' = "conversation_ended"
    /\ log' = <<>>
    /\ UNCHANGED <<saves, granted>>

\* the REPL's `continue` under `if w.flags.get("in_conversation")`: the loop
\* goes round, past the two menus, without reading a line
Spin(b) ==
    /\ pc \in {"repl", "spinning"}
    /\ ~flags.game_completed /\ ~flags.game_over
    /\ flags.in_conversation
    /\ pc' = "spinning"
    /\ UNCHANGED <<player, locations, npcs, flags, monster, saves, out, log, granted, lines>>
    /\ UNCHANGED gui

\* the REPL shows the menu of handle_game_completion or of handle_game_over
AtMenu == pc = "repl" /\ (flags.game_completed \/ flags.game_over)

MenuRestart(b) ==
    /\ AtMenu
    /\ SetWorld(NewGame)
    /\ granted' = NoneGranted
    /\ out' = "new_game_started"
    /\ log' = <<>>
    /\ UNCHANGED <<saves, pc, lines>>
    /\ UNCHANGED gui

MenuLoad(b) ==
    /\ AtMenu
    /\ \E save_name \in save_files(saves) :
          LET loaded_world == load_world(saves, save_name) IN
          /\ IF loaded_world.ok
             THEN SetWorld(describe_location(loaded_world.world).w) /\ out' = "__LOAD__"
             ELSE SetWorld(NewGame) /\ out' = "failed_to_load_new_game"
    /\ granted' = NoneGranted
    /\ log' = <<>>
    /\ UNCHANGED <<saves, pc, lines>>
    /\ UNCHANGED gui

MenuQuit(b) ==
    /\ AtMenu
    /\ pc' = "quit"
    /\ out' = "__QUIT__"
    /\ log' = <<>>
    /\ UNCHANGED <<player, locations, npcs, flags, monster, saves, granted, lines>>
    /\ UNCHANGED gui

-----------------------------------------------------------------------------
(* Game window *)

\* a Tk event: Enter pressed with text in the input field, or the window closed
EnterKey(text) == [kind |-> "enter", text |-> text]
CloseButton == [kind |-> "close", text |-> ""]

\* GameWindow.on_enter with command = input_var.get().strip() on the window
\* state g = [waiting, result, accepted]
on_enter(g, command) ==
    IF command # ""
    THEN [waiting |-> FALSE, result |-> command, accepted |-> Append(g.accepted, command)]
    ELSE g

\* GameWindow.on_close
on_close(g) == [g EXCEPT !.waiting = FALSE, !.result = "quit"]

\* root.update(): the handlers of all pending events, in the order of the events
RECURSIVE update(_, _)
update(g, evs) ==
    IF evs = <<>> THEN g
    ELSE update(IF Head(evs).kind = "enter" THEN on_enter(g, Head(evs).text) ELSE on_close(g),
                Tail(evs))

\* the user presses Enter or closes the window while the program does
\* something else: the event waits in the queue of Tk
User(b) ==
    /\ loop # "done"
    /\ Len(events) < b.max_pending
    /\ \E e \in {EnterKey(text) : text \in b.typed} \cup {CloseButton} :
          events' = Append(events, e)
    /\ UNCHANGED <<waiting_for_input, input_result, loop, accepted, returned>>
    /\ UNCHANGED game

\* get_input up to its loop
GetInput(b) ==
    /\ loop = "busy"
    /\ Len(returned) < b.max_inputs
    /\ waiting_for_input' = TRUE
    /\ input_result' = "none"
    /\ loop' = "get_input"
    /\ UNCHANGED <<events, accepted, returned>>
    /\ UNCHANGED game

\* one pass of `while self.waiting_for_input and self.window: self.root.update()`
Update(b) ==
    /\ loop = "get_input"
    /\ waiting_for_input
    /\ events # <<>>
    /\ LET g == update([waiting |-> waiting_for_input, result |-> input_result,
                        accepted |-> accepted], events)
       IN /\ waiting_for_input' = g.waiting
          /\ input_result' = g.result
          /\ accepted' = g.accepted
    /\ events' = <<>>
    /\ UNCHANGED <<loop, returned>>
    /\ UNCHANGED game

\* `return self.input_result or "quit"` once the loop has ended
Return(b) ==
    /\ loop = "get_input"
    /\ ~waiting_for_input
    /\ LET value == IF input_result = "none" THEN "quit" ELSE input_result IN
          /\ returned' = Append(returned, value)
          /\ loop' = IF value = "quit" THEN "done" ELSE "busy"
    /\ UNCHANGED <<waiting_for_input, input_result, events, accepted>>
    /\ UNCHANGED game

-----------------------------------------------------------------------------
(* Specifications *)

Init ==
    /\ player = NewGame.player
    /\ locations = NewGame.locations
    /\ npcs = NewGame.npcs
    /\ flags = NewGame.flags
    /\ monster = NewGame.monster
    /\ saves = NoFiles
    /\ pc = "repl"
    /\ out = "description"
    /\ log = <<>>
    /\ granted = NoneGranted
    /\ lines = 0
    /\ waiting_for_input = FALSE
    /\ input_result = "none"
    /\ events = <<>>
    /\ loop = "busy"
    /\ accepted = <<>>
    /\ returned = <<>>

MaxSession == 7
MaxGold == 31
MaxQuestGold == 100
MaxPoints == 45
MaxSmallTalk == 2
MaxCopies == 2

\* the points an NPC starts with in build_world
StartPoints == [n \in NpcKeys |-> build_world.npcs[n].relationship_points]

\* Sessions of at most MaxSession input lines around the village and the cave:
\* every command of the parser, the highest rolls, every outcome of the
\* Dialogue Provider and of a write to the saves directory.
Play ==
    [go |-> {"go"},
     targets |-> {"village_square", "blacksmith_shop", "forest_path", "hidden_cave",
                  "healer_tent", "elder_hut", "door"},
     encounter |-> {1, 100},
     look |-> {<<"look">>},
     info |-> {<<"inventory">>},
     take |-> {"take"},
     items |-> {"glimmering_gem"},
     drops |-> {"glimmering_gem", "rusty_sword"},
     wares |-> {"rusty_sword"},
     gear |-> {"rusty_sword"},
     slots |-> {"weapon"},
     potions |-> {"healing_potion"},
     confirm |-> BOOLEAN,
     talk |-> {<<"talk", "to", "blacksmith">>, <<"talk", "wanderer">>},
     ask |-> {<<"ask", "healer", "about", "potions">>},
     name_first |-> {<<"wanderer", "hello">>},
     texts |-> {"hello there", "i need work"},
     prov |-> ProviderOutcomes,
     player_dice |-> "high",
     monster_dice |-> "high",
     escaped |-> BOOLEAN,
     save |-> {<<"save">>, <<"saves">>},
     load |-> {<<"load">>},
     unknown |-> {<<"xyzzy">>},
     io_set |-> IOOutcomes,
     session |-> MaxSession,
     max_gold |-> MaxGold,
     max_points |-> MaxPoints,
     max_copies |-> MaxCopies,
     small_talk |-> [n \in NpcKeys |-> StartPoints[n] + 1]]

Next ==
    \/ Go(Play) \/ Exit(Play) \/ Look(Play) \/ Info(Play)
    \/ Take(Play) \/ Drop(Play) \/ Buy(Play) \/ Equip(Play) \/ Unequip(Play) \/ Use(Play)
    \/ HealerService(Play) \/ Talk(Play) \/ Ask(Play) \/ NameFirst(Play)
    \/ Attack(Play) \/ Defend(Play) \/ Flee(Play)
    \/ Save(Play) \/ Load(Play) \/ ListSaves(Play) \/ Quit(Play) \/ Unknown(Play)
    \/ Say(Play) \/ Bye(Play)
    \/ MenuRestart(Play) \/ MenuLoad(Play) \/ MenuQuit(Play)

Spec == Init /\ [][Next]_vars

\* The quest line: the player walks the route of the main quests, fights with
\* the best roll against the weakest, and says the two phrases that forge the
\* sword and heal the elder.  Nothing can be written to the saves directory.
QuestLine ==
    [go |-> {"go"},
     targets |-> {"village_square", "blacksmith_shop", "forest_path", "iron_mine",
                  "hidden_cave", "deep_ruins", "elder_hut"},
     encounter |-> {100},
     take |-> {"take"},
     items |-> {"iron_ore", "glimmering_gem", "ancient_scroll"},
     drops |-> {"ancient_scroll"},
     gear |-> {"broad_sword"},
     talk |-> {<<"talk", "to", "blacksmith">>, <<"talk", "to", "elder">>},
     texts |-> {"forge me a sword", "please help heal him"},
     prov |-> {"no_key"},
     player_dice |-> "high",
     monster_dice |-> "low",
     io_set |-> {"fail"},
     escaped |-> {TRUE},
     session |-> 0,
     max_gold |-> MaxQuestGold,
     max_points |-> MaxPoints,
     max_copies |-> MaxCopies,
     small_talk |-> [n \in NpcKeys |-> StartPoints[n] + MaxSmallTalk]]

NextQuest ==
    \/ Go(QuestLine) \/ Take(QuestLine) \/ Drop(QuestLine) \/ Equip(QuestLine)
    \/ Talk(QuestLine) \/ Say(QuestLine) \/ Bye(QuestLine) \/ Attack(QuestLine)

SpecQuest == Init /\ [][NextQuest]_vars

\* Wandering: the player walks, exits and flees between every place that can
\* be reached with bare hands, and fights with the best roll against the weakest.
Wandering ==
    [go |-> {"go", "walk"},
     targets |-> LocationKeys \cup {"door", "north"},
     encounter |-> {100},
     player_dice |-> "high",
     monster_dice |-> "low",
     escaped |-> {TRUE},
     io_set |-> {"fail"},
     session |-> 0,
     max_gold |-> MaxGold,
     max_points |-> MaxPoints,
     max_copies |-> MaxCopies,
     small_talk |-> StartPoints]

NextWander ==
    \/ Go(Wandering) \/ Exit(Wandering) \/ Attack(Wandering) \/ Flee(Wandering)

SpecWander == Init /\ [][NextWander]_vars

\* The market: the quest line walked with bare hands, with a shop on the route
\* where the player buys the same ware as often as the gold allows, up to
\* MaxCopies of it.
Market ==
    [go |-> {"go"},
     targets |-> {"village_square", "blacksmith_shop", "forest_path", "iron_mine",
                  "hidden_cave", "deep_ruins", "elder_hut"},
     encounter |-> {100},
     take |-> {"take"},
     items |-> {"iron_ore", "glimmering_gem", "ancient_scroll"},
     drops |-> {"ancient_scroll"},
     wares |-> {"rusty_sword"},
     talk |-> {<<"talk", "to", "blacksmith">>, <<"talk", "to", "elder">>},
     texts |-> {"forge me a sword", "please help heal him"},
     prov |-> {"no_key"},
     player_dice |-> "high",
     monster_dice |-> "low",
     io_set |-> {"fail"},
     escaped |-> {TRUE},
     session |-> 0,
     max_gold |-> MaxQuestGold,
     max_points |-> MaxPoints,
     max_copies |-> MaxCopies,
     small_talk |-> [n \in NpcKeys |-> StartPoints[n] + MaxSmallTalk]]

NextMarket ==
    \/ Go(Market) \/ Take(Market) \/ Drop(Market) \/ Buy(Market)
    \/ Talk(Market) \/ Say(Market) \/ Bye(Market) \/ Attack(Market)

SpecMarket == Init /\ [][NextMarket]_vars

\* The window: the user types ahead up to MaxPending events, among them Enter
\* on an empty field, while the game loop asks for MaxInputs lines.
MaxPending == 2
MaxInputs == 3

Window ==
    [typed |-> {"", "look", "inventory"},
     max_pending |-> MaxPending,
     max_inputs |-> MaxInputs]

NextWindow ==
    \/ User(Window) \/ GetInput(Window) \/ Update(Window) \/ Return(Window)

SpecWindow == Init /\ [][NextWindow]_vars

\* The cave: the player walks between the village, the forest and the hidden
\* cave with and without random encounters, fights with the best roll against
\* the weakest, and flees with and without success.
Cave ==
    [go |-> {"go"},
     targets |-> {"village_square", "forest_path", "hidden_cave"},
     encounter |-> {1, 100},
     player_dice |-> "high",
     monster_dice |-> "low",
     escaped |-> BOOLEAN,
     io_set |-> {"fail"},
     session |-> 0,
     max_gold |-> MaxGold,
     max_points |-> MaxPoints,
     max_copies |-> MaxCopies,
     small_talk |-> StartPoints]

NextCave ==
    \/ Go(Cave) \/ Attack(Cave) \/ Flee(Cave)

SpecCave == Init /\ [][NextCave]_vars

\* The errand: the player fetches the wanderer's trinket from the secret chamber
\* behind the cave, fighting with the best roll against the weakest, talks to
\* the wanderer before or after, with a provider that has no credential, and
\* loads the autosave of the hidden quest, which may or may not have been written.
Errand ==
    [go |-> {"go"},
     targets |-> {"village_square", "forest_path", "hidden_cave", "door"},
     encounter |-> {100},
     take |-> {"take"},
     items |-> {"ancient_trinket"},
     talk |-> {<<"talk", "to", "wanderer">>},
     texts |-> {"hello there", "i found your trinket"},
     prov |-> {"no_key"},
     load |-> {<<"load", "autosave_quest_lost_trinket">>},
     player_dice |-> "high",
     monster_dice |-> "low",
     escaped |-> {TRUE},
     io_set |-> {"ok", "fail"},
     session |-> 0,
     max_gold |-> MaxGold,
     max_points |-> MaxPoints,
     max_copies |-> MaxCopies,
     small_talk |-> [n \in NpcKeys |-> StartPoints[n] + MaxSmallTalk]]

NextErrand ==
    \/ Go(Errand) \/ Take(Errand) \/ Attack(Errand)
    \/ Talk(Errand) \/ Say(Errand) \/ Bye(Errand)
    \/ Load(Errand) \/ Spin(Errand)

SpecErrand == Init /\ [][NextErrand]_vars

\* The endgame: the road from the village to the treasure in the sealed tower,
\* by the cave, its secret chamber, the wanderer, the ruins and the forge, with
\* the healer on the way; the player fights with the best roll against the
\* weakest, with the elder sword or with bare hands.
Endgame ==
    [go |-> {"go"},
     targets |-> {"village_square", "blacksmith_shop", "forest_path", "hidden_cave",
                  "door", "deep_ruins", "healer_tent", "sealed_tower"},
     encounter |-> {100},
     take |-> {"take"},
     items |-> {"ancient_trinket", "ancient_scroll"},
     gear |-> {"elder_sword"},
     confirm |-> {TRUE},
     talk |-> {<<"talk", "to", "wanderer">>, <<"talk", "to", "blacksmith">>},
     texts |-> {"i found your trinket", "read the scroll runes"},
     prov |-> {"no_key"},
     player_dice |-> "high",
     monster_dice |-> "low",
     escaped |-> {TRUE},
     io_set |-> {"fail"},
     session |-> 0,
     max_gold |-> MaxQuestGold,
     max_points |-> MaxPoints,
     max_copies |-> MaxCopies,
     small_talk |-> [n \in NpcKeys |-> StartPoints[n] + MaxSmallTalk]]

NextEndgame ==
    \/ Go(Endgame) \/ Take(Endgame) \/ Equip(Endgame) \/ HealerService(Endgame)
    \/ Talk(Endgame) \/ Say(Endgame) \/ Bye(Endgame) \/ Attack(Endgame)

SpecEndgame == Init /\ [][NextEndgame]_vars

\* The apothecary: the player earns gold and wounds in the cave, with the best
\* roll against the weakest, and spends the gold at the healer's tent on
\* potions, on the healing service and on healing asked for in dialogue.
Apothecary ==
    [go |-> {"go"},
     targets |-> {"village_square", "forest_path", "hidden_cave", "healer_tent"},
     encounter |-> {100},
     wares |-> {"healing_potion", "greater_healing_potion"},
     potions |-> {"healing_potion", "greater_healing_potion"},
     confirm |-> BOOLEAN,
     talk |-> {<<"talk", "to", "healer">>},
     texts |-> {"please help heal him"},
     prov |-> {"no_key"},
     player_dice |-> "high",
     monster_dice |-> "low",
     escaped |-> {TRUE},
     io_set |-> {"fail"},
     session |-> 0,
     max_gold |-> MaxGold,
     max_points |-> MaxPoints,
     max_copies |-> MaxCopies,
     small_talk |-> [n \in NpcKeys |-> StartPoints[n] + MaxSmallTalk]]

NextApothecary ==
    \/ Go(Apothecary) \/ Attack(Apothecary) \/ Buy(Apothecary) \/ Use(Apothecary)
    \/ HealerService(Apothecary) \/ Talk(Apothecary) \/ Say(Apothecary) \/ Bye(Apothecary)

SpecApothecary == Init /\ [][NextApothecary]_vars

-----------------------------------------------------------------------------
(* Claims *)

MoveVerbs == {"go", "move", "walk"}

\* the destination strings of the model: every location key, two of the
\* hidden-door keywords and a word that names nothing
Destinations == LocationKeys \cup {"door", "chamber", "north"}

\* r is the rejection of a movement command issued in w
Rejected(w, r) ==
    /\ r.out = "cant_go_that_way"
    /\ r.w.player.location = w.player.location
    /\ r.w.player.previous_location = w.player.previous_location
    /\ r.w.player.explored_areas = w.player.explored_areas

\* `exit` towards a previous location that is no exit of the current one
ExitRejected(w) ==
    (w.player.previous_location # "" /\ w.player.previous_location \notin Exits(Loc(w)))
        => Rejected(w, parse_and_exec(w, <<"exit">>, NoDice, saves))

\* C1 as stated: out of combat, every movement command (go / move / walk d, or
\* exit) towards a destination that is not among the exits of the current
\* location returns the rejection and leaves location, previous_location and
\* explored_areas unchanged.
C1_EveryNonExitRejected ==
    ~flags.in_combat =>
        /\ \A verb \in MoveVerbs, d \in Destinations \ Exits(Loc(World)) :
               Rejected(World, parse_and_exec(World, <<verb, d>>, NoDice, saves))
        /\ ExitRejected(World)

\* C1 amended: the same, except for go / move / walk in hidden_cave with a
\* destination that holds one of the hidden-door keywords, which moves the
\* player to secret_chamber.
C1_NonExitRejectedButHiddenDoor ==
    ~flags.in_combat =>
        /\ \A verb \in MoveVerbs, d \in Destinations \ Exits(Loc(World)) :
               ~(Loc(World) = "hidden_cave" /\ HiddenDoorTarget(d))
                   => Rejected(World, parse_and_exec(World, <<verb, d>>, NoDice, saves))
        /\ ExitRejected(World)

\* a movement command has just been rejected in hidden_cave, out of combat
C1_RejectedInHiddenCave ==
    out = "cant_go_that_way" /\ Loc(World) = "hidden_cave" /\ ~flags.in_combat

\* not_started < started < completed
QuestRank(state) == CASE state = "not_started" -> 0 [] state = "started" -> 1 [] OTHER -> 2

\* the step replaced the live world: a load, or a new game from a menu
WorldReplaced == out' \in {"__LOAD__", "new_game_started", "failed_to_load_new_game"}

\* C2: within one world no quest state moves backward: between two consecutive
\* states the state of each of the seven quests is non-decreasing in the order
\* not_started < started < completed.
C2_QuestsNeverMoveBackward ==
    [][~WorldReplaced =>
         \A q \in QuestKeys : QuestRank(player'.quests[q]) >= QuestRank(player.quests[q])]_vars

\* C3: within one world each quest's completion reward is handed out at most once.
C3_RewardsAtMostOnce == \A q \in QuestKeys : granted[q] <= 1


\* C4: in every reachable state in_combat is true if and only if the monster is
\* non-null.
C4_InCombatIffMonster == flags.in_combat <=> (monster # NoMonster)

\* C5: in every reachable state 0 <= player.hp <= player.max_hp.
C5_HpWithinBounds == 0 <= player.hp /\ player.hp <= player.max_hp

\* C6: every input line gets a textual response (or the quit / load sentinel)
\* and the REPL continues: no command raises, none ends the session with an
\* unhandled error.
C6_EveryLineAnswered == out # "EXCEPTION" /\ pc # "crashed"

\* the step is a successful flee
Escaped == flags.in_combat /\ out' = "escape"

\* the step brings the player, out of combat, into location l
Enters(l) ==
    /\ ~flags.in_combat
    /\ player.location # l
    /\ player'.location = l
    /\ ~WorldReplaced

\* C7: a successful flee from a boss stashes its key and hp under the location of
\* the fight, and the next entry into that location makes that boss the active
\* monster with the stashed hp and sets in_combat; a successful flee from any
\* other monster discards it and stashes nothing.
C7_BossRestoredOnReturn ==
    [][/\ (Escaped /\ monster.key \in BossKeys) =>
              /\ flags'.boss_key[player.location] = monster.key
              /\ flags'.boss_hp[player.location] = monster.hp
       /\ (Escaped /\ monster.key \notin BossKeys) =>
              /\ monster' = NoMonster
              /\ flags'.boss_key = flags.boss_key
              /\ flags'.boss_hp = flags.boss_hp
       /\ \A l \in LocationKeys :
              (Enters(l) /\ flags.boss_key[l] \in BossKeys) =>
                  /\ monster'.key = flags.boss_key[l]
                  /\ monster'.hp = flags.boss_hp[l]
                  /\ flags'.in_combat]_vars

\* the world read back from slot `quicksave` after the world w was saved there
SavedAndLoaded(w) ==
    load_game(WriteFile(saves, Snapshot("quicksave", w), "ok"), "quicksave")

C9_FailedLoadChangesNothing ==
    [][(Load(Play) /\ ~flags.in_combat /\ saves["quicksave"].kind # "json") =>
           /\ out' \in {"save_not_found", "failed_to_load"}
           /\ UNCHANGED <<player, locations, npcs, flags, monster, saves, pc>>]_vars

\* a load of the corrupt slot has just been refused, the player having moved
C9_CorruptLoadRefused ==
    /\ out = "failed_to_load"
    /\ saves["quicksave"] = Corrupt
    /\ player.previous_location # ""

\* the quest rules were consulted before position i of the log
RulesBefore(i) == \E j \in 1..(i - 1) : log[j] = "rules"

\* C10: in every dialogue turn the quest rules are consulted before the
\* Dialogue Provider, and the provider is consulted only if no rule fired.
C10_RulesBeforeProvider ==
    \A i \in 1..Len(log) :
        log[i] = "provider" =>
            /\ RulesBefore(i)
            /\ \A j \in 1..Len(log) : log[j] # "fired"

\* the last input ended with the Dialogue Provider raising to its caller
ProviderRaised == out = "EXCEPTION" /\ log # <<>> /\ log[Len(log)] = "provider"

\* C11: npc_reply_claude never propagates a failure to its caller: whatever the
\* provider does, the dialogue turn gets a string back.
C11_ProviderNeverRaises == ~ProviderRaised

\* the key in an equipment slot is an equipable item the player carries
SlotBacked(slot) ==
    slot = "none" \/ (slot \in ItemKeys /\ Equipable(slot) /\ In(player.inventory, slot))

\* C12: each of the three equipment slots is empty or holds the key of an
\* equipable item that is in the inventory.
C12_EquippedItemsCarried ==
    /\ SlotBacked(player.equipment.weapon)
    /\ SlotBacked(player.equipment.armor)
    /\ SlotBacked(player.equipment.accessory)

RECURSIVE OnTheGround(_, _, _)
\* how often key k lies on the ground of the locations ls of world w
OnTheGround(w, k, ls) ==
    IF ls = {} THEN 0
    ELSE LET l == CHOOSE x \in ls : TRUE
         IN w.locations[l].items[k] + OnTheGround(w, k, ls \ {l})

\* how often key k occurs in the world: in the inventory and on the ground
Copies(w, k) == w.player.inventory[k] + OnTheGround(w, k, LocationKeys)

\* the keys some shop sells
Wares == UNION {DOMAIN SHOP(n) : n \in ShopOwners}

\* C13 as stated: every item key occurs at most once in the world, on the ground
\* of one location or in the inventory.
C13_EveryItemInOnePlace == \A k \in ItemKeys : Copies(World, k) <= 1

\* C13 amended: every item key that no shop sells occurs at most once in the
\* world; a ware can be bought again and again, and then occurs several times.
C13_UnsoldItemInOnePlace == \A k \in ItemKeys \ Wares : Copies(World, k) <= 1

\* the elder's quest exchange has just happened while the player carries two
\* swords bought in the shop
C13_ExchangeWithTwoSwords ==
    /\ out = "elder_healed"
    /\ player.inventory["rusty_sword"] = 2
    /\ Copies(World, "magical_amulet") = 1
    /\ Copies(World, "glimmering_gem") = 0

\* C14: after every command the achievement explorer is held if and only if
\* explored_areas has at least 5 entries, and it is held at most once.
C14_ExplorerIffFiveAreas ==
    /\ In(player.achievements, "explorer") <=> (Size(player.explored_areas) >= 5)
    /\ player.achievements["explorer"] <= 1

\* the step changed gold, a quest state, the explored areas or what an NPC remembers
StateChanged ==
    \/ player'.gold # player.gold
    \/ player'.quests # player.quests
    \/ player'.explored_areas # player.explored_areas
    \/ \E n \in NpcKeys : npcs'[n].said # npcs[n].said

\* every achievement whose predicate holds in w has been awarded
AllAwarded(w) == check_achievements(w).player.achievements = w.player.achievements

\* C15: after every command that changes gold, quest states, explored areas or
\* NPC memory, every achievement whose predicate holds in the resulting state
\* is in player.achievements.
C15_AchievementsAfterEveryChange ==
    [][(~WorldReplaced /\ StateChanged) => AllAwarded(World')]_vars

\* a Python list without a repeated element
NoDuplicate(b) == \A k \in DOMAIN b : b[k] <= 1

\* every element of list a is still in list b
Keeps(a, b) == \A k \in DOMAIN a : b[k] >= a[k]

\* neither list holds a duplicate, and a second check_achievements right after
\* the first adds nothing
ListsAreSets ==
    /\ NoDuplicate(player.achievements)
    /\ NoDuplicate(player.explored_areas)
    /\ AllAwarded(check_achievements(World))

\* C16: within one world achievements and explored_areas only grow: no command
\* removes an element of either, neither ever holds a duplicate, and a second
\* check_achievements right after the first adds nothing.
C16_AchievementsOnlyGrow ==
    /\ []ListsAreSets
    /\ [][~WorldReplaced => /\ Keeps(player.achievements, player'.achievements)
                            /\ Keeps(player.explored_areas, player'.explored_areas)]_vars

\* back in the village square, an area explored from the start, with three
\* areas explored and an achievement held
C16_RevisitWithAchievements ==
    /\ player.location = "village_square"
    /\ player.previous_location # ""
    /\ Size(player.explored_areas) >= 3
    /\ Size(player.achievements) >= 1

\* what `buy item` does at the prompt, out of combat, with shop owner n present
Bought(item) == parse_and_exec(World, <<"buy", item>>, NoDice, saves)

\* C17: a new world starts with 15 gold, and a buy of an item with price p from
\* the shop owner present takes p gold and appends the item if gold >= p, and
\* otherwise answers with the insufficient-gold message and leaves gold and
\* inventory unchanged.
C17_BuyChecksGold ==
    /\ build_world.player.gold = 15
    /\ (AtPrompt /\ ~flags.in_combat) =>
         \A n \in ShopOwners \cap NpcsAt(player.location) : \A item \in DOMAIN SHOP(n) :
            IF player.gold >= SHOP(n)[item]
            THEN /\ Bought(item).out = "buy"
                 /\ Bought(item).w.player.gold = player.gold - SHOP(n)[item]
                 /\ Bought(item).w.player.inventory = ListAppend(player.inventory, item)
            ELSE /\ Bought(item).out = "not_enough_gold"
                 /\ Bought(item).w.player.gold = player.gold
                 /\ Bought(item).w.player.inventory = player.inventory

\* the second 10-gold purchase was refused: one sword bought, 5 gold left
C17_SecondPurchaseRefused ==
    /\ out = "not_enough_gold"
    /\ player.gold = 5
    /\ player.inventory["rusty_sword"] = 1

CaveBeast == Monster("cave_beast", "Cave Beast", 25, 2, 5)

\* the Cave Beast has not been defeated: the cave is unseeded, or the beast is
\* the monster of the world, or it is stashed in the flags after a flight
BeastAtLarge ==
    \/ ~flags.cave_seeded
    \/ monster.key = "cave_beast"
    \/ \E l \in LocationKeys : flags.boss_key[l] = "cave_beast"

\* C18: the first entry into hidden_cave spawns the Cave Beast (hp 25, attack
\* 2 to 5) and sets in_combat, whatever the encounter roll; the victory over
\* the Cave Beast leaves no Cave Beast behind, and from then on no step of the
\* same world brings one back.
C18_CaveBeastOnceOnFirstEntry ==
    [][~WorldReplaced =>
        /\ (player'.location = "hidden_cave" /\ ~In(player.explored_areas, "hidden_cave"))
              => (monster' = CaveBeast /\ flags'.in_combat)
        /\ (monster.key = "cave_beast" /\ out' = "victory") => ~BeastAtLarge'
        /\ ~BeastAtLarge => ~BeastAtLarge']_vars

\* back in the hidden cave after the victory over the Cave Beast
C18_ReturnAfterVictory ==
    /\ ~BeastAtLarge
    /\ player.location = "hidden_cave"
    /\ player.previous_location = "forest_path"
    /\ out \in {"description", "random_encounter"}
    /\ player.gold >= 27

\* the step restarted, loaded or quit from a menu
MenuChoice == out' \in {"new_game_started", "__LOAD__", "failed_to_load_new_game", "__QUIT__"}

\* C19: a step in which the monster's damage brings the player's hp to 0 or
\* below sets game_over in that same step, and the only steps taken from a
\* game-over world are the restart, the load and the quit of the menu.
C19_DefeatEndsTheGame ==
    [][/\ (player'.hp < player.hp /\ player'.hp <= 0) => flags'.game_over
       /\ flags.game_over => MenuChoice]_vars

\* a game restarted from the game-over menu after some lines were played
C19_RestartedAfterDefeat ==
    /\ out = "new_game_started"
    /\ lines >= 5
    /\ ~flags.game_over
    /\ player.hp = 20

\* the items with an attack stat
Weapons == {k \in ItemKeys : Stat(k, "attack") > 0}

\* the attack stat of the item in the weapon slot of w, 0 for an empty slot
WeaponAttack(w) ==
    IF w.player.equipment.weapon = "none" THEN 0 ELSE Stat(w.player.equipment.weapon, "attack")

\* the interval b - v .. b + v for b = 2 + the weapon's attack, v = max(1, b // 4)
DamageRange(w) ==
    LET b == 2 + WeaponAttack(w)
        v == Max(1, b \div 4)
    IN  (b - v)..(b + v)

\* the world after the player was handed item and equipped it
Armed(item) == equip_item([World EXCEPT !.player.inventory = ListAppend(@, item)], item).w

\* C20: the player's attack damage is drawn from b - v .. b + v with b = 2 + the
\* attack stat of the equipped weapon (0 without one) and v = max(1, b // 4);
\* equipping a weapon with attack a makes b exactly 2 + a, a more than with
\* bare hands; and every damage value is at least 1.
C20_PlayerDamageRange ==
    /\ player_attack_damage(World) = DamageRange(World)
    /\ \A dmg \in player_attack_damage(World) : dmg >= 1
    /\ \A item \in Weapons :
          /\ Armed(item).player.equipment.weapon = item
          /\ get_player_stats(Armed(item), "attack") = 2 + Stat(item, "attack")
          /\ player.equipment.weapon = "none" =>
                get_player_stats(Armed(item), "attack")
                    = get_player_stats(World, "attack") + Stat(item, "attack")
          /\ player_attack_damage(Armed(item)) = DamageRange(Armed(item))
          /\ \A dmg \in player_attack_damage(Armed(item)) : dmg >= 1

\* a monster was struck down with the broad sword in hand
C20_VictoryWithBroadSword ==
    /\ player.equipment.weapon = "broad_sword"
    /\ out = "victory"

\* the hp the player loses in the handler result r
HpLost(r) == player.hp - r.w.player.hp

\* C21: every monster hit deals max(1, roll - defense) damage, with roll in
\* attack_min..attack_max and defense the equipped defense plus 2 while
\* defending: in the retaliation of do_attack, in a failed flee and in
\* do_defend alike, a hit is never fully negated.
C21_MonsterHitAtLeastOne ==
    flags.in_combat =>
        \A raw_damage \in monster_attack_damage(monster) :
            LET defense == get_player_stats(World, "defense") IN
            /\ HpLost(do_defend(World, raw_damage)) = Max(1, raw_damage - (defense + 2))
            /\ HpLost(do_flee(World, FALSE, raw_damage)) = Max(1, raw_damage - defense)
            /\ \A dmg \in player_attack_damage(World) :
                  monster.hp - dmg > 0 =>
                     HpLost(do_attack(World, dmg, raw_damage)) = Max(1, raw_damage - defense)

\* input lines other than attack, defend, flee, look / l and inventory / inv /
\* i / stats: moves, item commands, shop, talk, persistence, unknown words
OtherLines ==
    {<<v, t>> : v \in {"go", "walk", "GO"}, t \in {"village_square", "forest_path", "door"}}
    \cup {<<v, i>> : v \in {"take", "drop", "equip", "use", "buy", "Take"},
                     i \in {"rusty_sword", "glimmering_gem", "healing_potion"}}
    \cup {<<"talk", "to", "blacksmith">>, <<"talk", "wanderer">>,
          <<"ask", "healer", "about", "potions">>, <<"unequip", "weapon">>, <<"heal">>,
          <<"shop">>, <<"quests">>, <<"save">>, <<"save", "slot1">>, <<"saves">>,
          <<"load">>, <<"load", "slot1">>, <<"attack", "wolf">>, <<"xyzzy">>}

CaseLines ==
    {<<"look">>, <<"Look">>, <<"go", "forest_path">>, <<"GO", "forest_path">>}
    \cup {<<v, i>> : v \in {"take", "Take", "drop", "buy", "equip", "use"},
                     i \in {"iron_ore", "Iron_Ore", "rusty_sword", "Rusty_Sword"}}

\* two lines that differ at most in letter case
SameButCase(a, b) == Len(a) = Len(b) /\ \A i \in 1..Len(a) : Lower(a[i]) = Lower(b[i])

\* C23: commands are case-insensitive: two input lines that differ only in
\* letter case, in the verb or in the item argument of take, drop, buy, equip
\* and use, leave the same world behind.
C23_CaseInsensitive ==
    AtPrompt =>
        \A a \in CaseLines : \A b \in CaseLines :
            SameButCase(a, b) =>
                parse_and_exec(World, a, NoDice, saves).w = parse_and_exec(World, b, NoDice, saves).w

\* the save slots after the line s was executed with the write outcome io
SlotsAfter(s, io) ==
    WriteAll(saves, parse_and_exec(World, s, [NoDice EXCEPT !.io = io], saves).saved, io)

\* C24: `saves` lists the save files and writes no snapshot, so that the save
\* slots are as before, whereas `save [name]` writes exactly the named slot,
\* quicksave by default.
C24_SavesWritesNothing ==
    (AtPrompt /\ ~flags.in_combat) =>
        \A io \in IOOutcomes :
            /\ SlotsAfter(<<"saves">>, io) = saves
            /\ SlotsAfter(<<"save">>, io) = WriteFile(saves, Snapshot("quicksave", World), io)
            /\ \A name \in SaveNames :
                  SlotsAfter(<<"save", name>>, io) = WriteFile(saves, Snapshot(name, World), io)

\* the tier the spec gives to the points: neutral below 26, friendly from 26 to
\* 75, ally from 76
TierOf(points) ==
    CASE points < 26 -> "neutral"
      [] points >= 26 /\ points <= 75 -> "friendly"
      [] points >= 76 -> "ally"

\* points are not negative and the level is the tier of the points
InTier(npc) ==
    /\ npc.relationship_points >= 0
    /\ npc.relationship_level = TierOf(npc.relationship_points)

\* point changes: the ones the game applies, losses, and steps across both
\* tier boundaries
PointChanges == {-100, -30, -5, -1, 0, 1, 3, 5, 15, 20, 25, 26, 46, 50, 76, 100}

\* C25: for every NPC relationship_points >= 0 and relationship_level is the
\* tier of relationship_points, in the initial world, after every sequence of
\* dialogue turns, quest exchanges and healings, and after any further change
\* of the points.
C25_LevelIsTierOfPoints ==
    \A n \in NpcKeys :
        /\ InTier(npcs[n])
        /\ \A change \in PointChanges : InTier(update_relationship(npcs[n], change).npc)

\* an NPC gained points in the game
C25_PointsGained ==
    \E n \in NpcKeys : npcs[n].relationship_points >= StartPoints[n] + 20

\* the dependency chain of the main quests
QuestChain == <<"prove_worth", "clear_cave", "heal_elder", "retrieve_scroll",
                "forge_key", "final_treasure">>

\* C26: a quest of the chain prove_worth, clear_cave, heal_elder,
\* retrieve_scroll, forge_key, final_treasure is completed only if its
\* predecessor in the chain is completed.
C26_QuestChainOrder ==
    \A i \in 2..Len(QuestChain) :
        player.quests[QuestChain[i]] = "completed"
            => player.quests[QuestChain[i - 1]] = "completed"

\* the step brought the monster key into the world
Spawns(key) == monster'.key = key /\ monster.key # key

\* C27: a Cave Spider is spawned only where the Cave Beast has been defeated, a
\* Mine Bat only after the Mine Rat is gone, a Stone Imp only after
\* guardian_defeated, and no monster is spawned while another one is active.
C27_EncountersAfterScriptedMonster ==
    [][~WorldReplaced =>
        /\ Spawns("cave_spider") => ~BeastAtLarge
        /\ Spawns("mine_bat") => (flags.mine_seeded /\ monster.key # "mine_rat")
        /\ Spawns("stone_imp") => flags.guardian_defeated
        /\ (flags.in_combat /\ monster # NoMonster) => monster'.key \in {monster.key, "none"}]_vars

\* the values get_input returned for lines, without the "quit" of a closed window
RECURSIVE LinesOf(_)
LinesOf(seq) ==
    IF seq = <<>> THEN <<>>
    ELSE IF Head(seq) = "quit" THEN LinesOf(Tail(seq))
    ELSE <<Head(seq)>> \o LinesOf(Tail(seq))

\* C28: every non-empty line accepted by on_enter is returned by exactly one
\* get_input call: once get_input has returned a line, the lines returned are
\* the lines accepted, in their order, also when two Enter events were handled
\* before the game loop took the line; and after the window was closed while
\* the loop waited, the value returned is "quit".
C28_SingleSlotHandoff ==
    /\ loop = "busy" => LinesOf(returned) = accepted
    /\ loop = "done" => returned[Len(returned)] = "quit"


\* the replies conversation_mode's loop can show for the next utterance
DialogueReplies ==
    {talk_to_conversation(World, flags.conversation_npc, text, prov) :
        text \in Play.texts, prov \in Play.prov}

\* C29: conversation mode is entered only from the prompt, out of combat and with
\* the named NPC in the player's location; inside it a line either ends the
\* conversation, clearing in_conversation and conversation_npc and changing nothing
\* else, or is one dialogue turn with that NPC, which moves the player nowhere and
\* starts no fight; and a refused `talk` leaves in_conversation false.
C29_ConversationMode ==
    [][/\ (pc # "conversation" /\ pc' = "conversation") =>
            /\ pc = "repl" /\ ~flags.in_combat
            /\ flags'.in_conversation
            /\ flags'.conversation_npc \in NpcsAt(player.location)
            /\ player' = player
       /\ pc = "conversation" =>
            \/ /\ pc' = "repl"
               /\ ~flags'.in_conversation /\ flags'.conversation_npc = "none"
               /\ UNCHANGED <<player, locations, npcs, monster>>
            \/ /\ pc' \in {"conversation", "crashed"}
               /\ \E r \in DialogueReplies : World' = r.w /\ out' = r.out
               /\ player'.location = player.location
               /\ flags'.in_combat = flags.in_combat
               /\ flags'.conversation_npc = flags.conversation_npc
       /\ (pc = "repl" /\ out' \in {"no_time_to_chat", "no_one_named"}) =>
            pc' = "repl" /\ ~flags'.in_conversation /\ flags'.conversation_npc = "none"
      ]_vars

\* a conversation was entered, a turn was spoken and the player has left it
C29_ConversationLeft ==
    /\ pc = "repl" /\ out = "conversation_ended"
    /\ \E n \in NpcKeys : npcs[n].said
    /\ ~flags.in_conversation


\* the relationship tier of NPC n rises in this step
TierRises(n) ==
    \/ npcs[n].relationship_level = "neutral" /\ npcs'[n].relationship_level = "friendly"
    \/ npcs[n].relationship_level = "friendly" /\ npcs'[n].relationship_level = "ally"

\* C30: a dialogue turn in which the NPC's tier rises shows the notification of
\* the new tier, the message update_relationship returned for the crossing, in
\* its response.
C30_TierNoticeShown ==
    [][\A n \in NpcKeys :
          (pc = "conversation" /\ TierRises(n)) =>
              \E m \in {"friendly", "ally"} :
                  /\ m = npcs'[n].relationship_level
                  /\ out' = m
      ]_vars


\* C31: every key in player.achievements is one of the ten keys of the
\* ACHIEVEMENTS catalog.
C31_AchievementsInCatalog ==
    \A k \in AchievementKeys : In(player.achievements, k) => k \in ACHIEVEMENTS


\* C32: in a state where final_treasure is completed, check_achievements leaves
\* treasure_hunter in player.achievements.
C32_TreasureHunterUnlocked ==
    QuestGet(World, "final_treasure") = "completed" =>
        In(check_achievements(World).player.achievements, "treasure_hunter")


\* the gold found on a defeated monster, by key
KillGold(key) ==
    CASE key = "cave_beast" -> 12
      [] key = "ancient_guardian" -> 15
      [] key = "tower_guardian" -> 25
      [] key = "mine_rat" -> 3
      [] key = "forest_wolf" -> 4
      [] key = "cave_spider" -> 3
      [] key = "mine_bat" -> 2
      [] key = "stone_imp" -> 5

\* r is the victory over the monster of w: no retaliation, combat over, the
\* monster gone, its gold paid, and the follow-on changes of the two guardians
Victory(w, r) ==
    /\ r.out = "victory"
    /\ r.w.player.hp = w.player.hp
    /\ ~r.w.flags.in_combat
    /\ r.w.monster = NoMonster
    /\ r.w.player.gold = w.player.gold + KillGold(w.monster.key)
    /\ w.monster.key = "ancient_guardian" =>
           /\ r.w.flags.guardian_defeated
           /\ In(r.w.locations[Loc(w)].items, "ancient_scroll")
    /\ w.monster.key = "tower_guardian" =>
           /\ r.w.player.quests["final_treasure"] = "completed"
           /\ r.w.flags.game_completed

Usables == ItemKeys \cup {"elixir"}

\* item_key is a healing consumable that the player of w holds
HealingHeld(w, item_key) ==
    /\ In(w.player.inventory, item_key)
    /\ item_key \in ItemKeys
    /\ Category(item_key) = "consumable"

\* the state change of use_item(w, item_key), result r
UseChanges(w, item_key, r) ==
    IF HealingHeld(w, item_key) /\ w.player.hp < w.player.max_hp THEN
        /\ r.w.player.inventory = [w.player.inventory EXCEPT ![item_key] = @ - 1]
        /\ r.w.player.hp = IF item_key = "greater_healing_potion" THEN w.player.max_hp
                           ELSE Min(w.player.max_hp, w.player.hp + Heal(item_key))
    ELSE
        /\ r.w.player.hp = w.player.hp
        /\ r.w.player.inventory = w.player.inventory

\* C34: use_item on a healing consumable held, with hp < max_hp, removes one
\* copy, sets hp to min(max_hp, hp + heal) or to max_hp for a full heal, and
\* reports the amount healed, new hp minus old hp; otherwise hp and inventory
\* stay as they are.
C34_UseItemReportsHealing ==
    \A item_key \in Usables :
        LET r == use_item(World, item_key) IN
        /\ UseChanges(World, item_key, r)
        /\ (HealingHeld(World, item_key) /\ player.hp < player.max_hp) =>
               use_item_report(World, item_key) = <<"amount", r.w.player.hp - player.hp>>


\* the price paid in a step that answers o, 0 where nothing is for sale
PricePaid(o) ==
    CASE o = "buy" -> UNION {{SHOP(n)[i] : i \in DOMAIN SHOP(n)} : n \in ShopOwners}
      [] o = "healed_paid" -> {5}
      [] OTHER -> {}

\* C35: player.gold >= 0 in every state, and within one world gold goes down
\* only by a purchase or a paid healing, by its price, which the player had.
C35_GoldNeverNegative ==
    /\ [](player.gold >= 0)
    /\ [][(~WorldReplaced /\ player'.gold < player.gold) =>
              \E price \in PricePaid(out') :
                  /\ player.gold >= price
                  /\ player'.gold = player.gold - price]_vars

\* the healer has just been paid in dialogue, and the purse is nearly empty
C35_PaidInDialogue ==
    /\ pc = "conversation" /\ out = "healed_paid"
    /\ flags.conversation_npc = "healer"
    /\ player.gold < 5


\* C36: whenever the REPL loop is at its top-of-loop checks in_conversation is
\* false, so the loop never goes round without reading input.
C36_LoopReadsInput ==
    /\ pc = "repl" => ~flags.in_conversation
    /\ pc # "spinning"


\* the Ancient Guardian is in the world: fighting, or stashed after a flight
GuardianAbout ==
    \/ monster.key = "ancient_guardian"
    \/ \E l \in LocationKeys : flags.boss_key[l] = "ancient_guardian"

\* the player carries a sword other than rusty_sword
CarriesStrongSword ==
    In(player.inventory, "broad_sword") \/ In(player.inventory, "elder_sword")

\* the step is the player's first entry to deep_ruins
FirstEntryToRuins ==
    /\ player'.location = "deep_ruins" /\ player.location # "deep_ruins"
    /\ ~In(player.explored_areas, "deep_ruins")

\* the ruins were seeded and the guardian neither fell nor is about
TurnedAway == flags.ruins_seeded /\ ~flags.guardian_defeated /\ ~GuardianAbout

ScrollAnywhere ==
    \/ In(player.inventory, "ancient_scroll")
    \/ \E l \in LocationKeys : In(locations[l].items, "ancient_scroll")

\* C37: the Ancient Guardian comes into the world only on the first entry to
\* deep_ruins, made with a sword other than rusty_sword; a first entry without
\* one sets ruins_seeded and spawns nothing, and from then on, within that
\* world, the guardian is never spawned, guardian_defeated stays false, no
\* ancient_scroll appears and forge_key and final_treasure stay uncompleted.
C37_GuardianOnlyOnFirstEntry ==
    /\ [][~WorldReplaced =>
            /\ (GuardianAbout' /\ ~GuardianAbout) => (FirstEntryToRuins /\ CarriesStrongSword)
            /\ (FirstEntryToRuins /\ ~CarriesStrongSword) => TurnedAway'
            /\ TurnedAway => TurnedAway']_vars
    /\ [](TurnedAway =>
            /\ ~ScrollAnywhere
            /\ player.quests["forge_key"] # "completed"
            /\ player.quests["final_treasure"] # "completed")

\* back in the ruins with the elder sword after having been turned away
C37_TooLateWithSword ==
    /\ TurnedAway
    /\ player.location = "deep_ruins"
    /\ In(player.inventory, "elder_sword")
    /\ player.equipment.weapon = "elder_sword"


\* C38: player.location is an element of player.explored_areas in every state,
\* although a successful flee moves the player to forest_path and touches
\* neither explored_areas nor previous_location.
C38_LocationIsExplored ==
    /\ [](In(player.explored_areas, player.location))
    /\ [][out' = "escape" =>
              /\ player'.location = "forest_path"
              /\ player'.explored_areas = player.explored_areas
              /\ player'.previous_location = player.previous_location]_vars

\* the player fled from the cave and stands on the forest path, which the
\* history still names as the place come from
C38_FledFromCave ==
    /\ out = "escape"
    /\ player.location = "forest_path"
    /\ player.previous_location = "forest_path"
    /\ flags.boss_key["hidden_cave"] = "cave_beast"


KeyAnywhere ==
    \/ In(player.inventory, "master_key")
    \/ \E l \in LocationKeys : In(locations[l].items, "master_key")

\* C39: the story gates hold in every state: the player is in sealed_tower
\* only with final_boss_defeated, ancient_scroll is in the world only with
\* guardian_defeated, master_key only with forge_key completed, and
\* game_completed only with final_treasure completed.
C39_StoryGates ==
    /\ player.location = "sealed_tower" => flags.final_boss_defeated
    /\ ScrollAnywhere => flags.guardian_defeated
    /\ KeyAnywhere => player.quests["forge_key"] = "completed"
    /\ flags.game_completed => player.quests["final_treasure"] = "completed"

\* the game has been completed through every gate: the guardian fell, the key
\* was forged and is still carried, the Tower Guardian fell
C39_ThroughEveryGate ==
    /\ flags.game_completed /\ flags.final_boss_defeated /\ flags.guardian_defeated
    /\ In(player.inventory, "master_key")
    /\ player.quests["forge_key"] = "completed"


\* the answers of the three combat moves
RoundOuts == {"victory", "monster_hits_you", "you_fall", "brace", "stumble",
              "you_collapse", "escape"}

\* C40: every attack takes at least 1 from the active monster's hp, whatever the
\* roll, and a monster in combat has hp >= 1; while a fight goes on the monster's
\* hp never rises and an attack lowers it, so at most as many attacks as the
\* monster has hp end the fight; and a combat move after which the same fight
\* goes on with the monster's hp unchanged is a defend or a failed flee.
C40_AttacksEndCombat ==
    /\ [](flags.in_combat =>
             /\ monster.hp >= 1
             /\ \A dmg \in player_attack_damage(World),
                   raw_damage \in monster_attack_damage(monster) :
                    LET r == do_attack(World, dmg, raw_damage) IN
                    /\ dmg >= 1
                    /\ r.out # "victory" => r.w.monster.hp <= monster.hp - 1)
    /\ [][(flags.in_combat /\ flags'.in_combat /\ ~WorldReplaced) =>
              /\ monster'.hp <= monster.hp
              /\ out' = "monster_hits_you" => monster'.hp < monster.hp
              /\ (out' \in RoundOuts /\ monster'.hp = monster.hp) =>
                     out' \in {"brace", "stumble"}]_vars

\* a wolf wounded by an attack, and the fight kept going by a defend
C40_DefendKeepsFightGoing ==
    /\ flags.in_combat /\ out = "brace"
    /\ monster.key = "forest_wolf" /\ monster.hp < 12
    /\ player.hp > 0

====
